---- MODULE Spec2Model ----
(***************************************************************************)
(* State-machine model of the SuperOps.ai MCP server: the navigation /     *)
(* dispatch core (src/index.ts), the transport client and its lazily       *)
(* constructed singleton (src/client.ts) and the handleCall boundary of    *)
(* the five domain modules (src/domains/*.ts).                             *)
(*                                                                         *)
(* Texts are modelled as sequences of fragments (the pieces a template     *)
(* literal or a join() concatenates), so that "the text contains X" is the *)
(* membership of X among the fragments.                                    *)
(***************************************************************************)
EXTENDS Integers, Sequences, FiniteSets, TLC

VARIABLES
  currentDomain,   \* index.ts: let currentDomain: Domain | null
  domainCache,     \* index.ts: the keys of the Map domainCache
  env,             \* process.env: the three SUPEROPS_* variables
  _client,         \* client.ts: let _client: SuperOpsClient | null  (<<>> or <<c>>)
  last,            \* the request most recently served and what it returned
  inflight         \* the handler runs suspended at an await, by handler slot

vars == <<currentDomain, domainCache, env, _client, last, inflight>>

null == "null"
undefined == "<undefined>"

----------------------------------------------------------------------------
(* Tool catalogs                                                           *)

validDomains == <<"clients", "tickets", "assets", "technicians", "custom">>
allDomains == <<"clients", "tickets", "assets", "technicians", "custom">>

Range(s) == {s[i] : i \in DOMAIN s}
Domains == Range(allDomains)

navigationTool == "superops_navigate"
backTool == "superops_back"
testConnectionTool == "superops_test_connection"

getClientsTools ==
  <<"superops_clients_list", "superops_clients_get", "superops_clients_search">>
getTicketsTools ==
  <<"superops_tickets_list", "superops_tickets_get", "superops_tickets_create",
    "superops_tickets_update", "superops_tickets_add_note", "superops_tickets_log_time">>
getAssetsTools ==
  <<"superops_assets_list", "superops_assets_get", "superops_assets_software",
    "superops_assets_patches">>
getTechniciansTools ==
  <<"superops_technicians_list", "superops_technicians_get", "superops_technicians_groups">>
\* a plausible slip: a name of the clients catalog reused in the custom one
getCustomTools_Duplicate ==
  <<"superops_custom_query", "superops_custom_mutation", "superops_clients_list">>

getCustomTools ==
  <<"superops_custom_query", "superops_custom_mutation">>

\* the module loadDomain's switch constructs for a domain (its tools, in order)
DomainModule(domain) ==
  CASE domain = "clients" -> getClientsTools
    [] domain = "tickets" -> getTicketsTools
    [] domain = "assets" -> getAssetsTools
    [] domain = "technicians" -> getTechniciansTools
    [] domain = "custom" -> getCustomTools

\* a plausible slip: a cache of one entry, the last domain accessed
loadDomain_SingleEntry(cache, domain) == {domain}

\* loadDomain: the cache after the access (an entry is inserted on first access)
loadDomain(cache, domain) == cache \cup {domain}

\* a plausible slip: every() where some() is meant
toolBelongsToDomain_Every(domain, name) ==
  \A i \in DOMAIN DomainModule(domain) : DomainModule(domain)[i] = name

\* domainTools.tools.some((t) => t.name === name)
toolBelongsToDomain(domain, name) ==
  \E i \in DOMAIN DomainModule(domain) : DomainModule(domain)[i] = name

----------------------------------------------------------------------------
(* JSON values: what arguments, request variables and response bodies are  *)
(* made of.  An object is the sequence of its members in insertion order.  *)

JNull == [null |-> TRUE]
JUndefined == [undef |-> TRUE]
JBool(b) == [bool |-> b]
JNum(n) == [num |-> n]
JStr(s) == [str |-> s]
JArr(items) == [arr |-> items]
JObj(members) == [obj |-> members]
Member(key, value) == [k |-> key, v |-> value]

IsObj(value) == DOMAIN value = {"obj"}
Keys(object) == {object.obj[i].k : i \in DOMAIN object.obj}
HasKey(object, key) == key \in Keys(object)
\* object[key] (undefined when the object has no such member)
Get(object, key) ==
  IF HasKey(object, key)
  THEN object.obj[CHOOSE i \in DOMAIN object.obj : object.obj[i].k = key].v
  ELSE JUndefined

----------------------------------------------------------------------------
(* Transport client (client.ts)                                            *)

API_ENDPOINTS(region) ==
  CASE region = "us" -> "https://api.superops.ai/msp"
    [] region = "eu" -> "https://euapi.superops.ai/msp"
    [] OTHER -> undefined

\* a ?? b
Coalesce(a, b) == IF a = undefined THEN b ELSE a

\* !s for a string-or-undefined value
Falsy(s) == s = undefined \/ s = ""

\* a plausible slip: only the token is required
getCredentials_TokenOnly ==
  IF Falsy(env.SUPEROPS_API_TOKEN)
  THEN <<>>
  ELSE <<[apiToken |-> env.SUPEROPS_API_TOKEN,
          subdomain |-> env.SUPEROPS_SUBDOMAIN,
          region |-> env.SUPEROPS_REGION]>>

\* getCredentials(): <<>> for null, <<creds>> otherwise
getCredentials ==
  IF Falsy(env.SUPEROPS_API_TOKEN) \/ Falsy(env.SUPEROPS_SUBDOMAIN)
  THEN <<>>
  ELSE <<[apiToken |-> env.SUPEROPS_API_TOKEN,
          subdomain |-> env.SUPEROPS_SUBDOMAIN,
          region |-> env.SUPEROPS_REGION]>>

\* new SuperOpsClient(credentials)
SuperOpsClient(credentials) ==
  [apiToken |-> credentials.apiToken,
   subdomain |-> credentials.subdomain,
   endpoint |-> API_ENDPOINTS(Coalesce(credentials.region, "us"))]

\* a thrown value: an Error (with its message) or any other value (with its
\* string coercion)
ErrorValue(name, message) ==
  [isError |-> TRUE, name |-> name, message |-> message,
   str |-> <<name, ": ">> \o message, code |-> <<>>, retryAfter |-> <<>>]
NonErrorValue(str) ==
  [isError |-> FALSE, name |-> "", message |-> <<undefined>>, str |-> str,
   code |-> <<>>, retryAfter |-> <<>>]
NoError == [isError |-> FALSE, name |-> "", message |-> <<>>, str |-> <<>>,
            code |-> <<>>, retryAfter |-> <<>>]

\* new SuperOpsError(message, code, retryAfter); an optional value is <<>>
\* (undefined) or <<v>>
SuperOpsError(message, code, retryAfter) ==
  [ErrorValue("SuperOpsError", <<message>>) EXCEPT !.code = code,
                                                   !.retryAfter = retryAfter]

CredentialsNotConfigured ==
  ErrorValue("Error",
    <<"SuperOps credentials not configured. Set ", "SUPEROPS_API_TOKEN", " and ",
      "SUPEROPS_SUBDOMAIN", " environment variables.">>)

\* a plausible slip: a client built from the environment on every call
getClient_Rebuild ==
  IF getCredentials = <<>>
  THEN IF _client = <<>>
       THEN [thrown |-> TRUE, error |-> CredentialsNotConfigured, client |-> _client]
       ELSE [thrown |-> FALSE, error |-> NoError, client |-> _client]
  ELSE [thrown |-> FALSE, error |-> NoError,
        client |-> <<SuperOpsClient(getCredentials[1])>>]

\* getClient(): the client returned (or the error thrown) and the new _client
getClient ==
  IF _client = <<>>
  THEN IF getCredentials = <<>>
       THEN [thrown |-> TRUE, error |-> CredentialsNotConfigured, client |-> _client]
       ELSE [thrown |-> FALSE, error |-> NoError,
             client |-> <<SuperOpsClient(getCredentials[1])>>]
  ELSE [thrown |-> FALSE, error |-> NoError, client |-> _client]

\* What the network does with the one fetch of a call: the fetch rejects with
\* a value, or resolves to a response with a status and a JSON body
\* {errors?, data?}.  data is "absent", "null" or an "object"; an object
\* carries the payload under the root field of the operation that was sent.
Response(ok, status, statusText, errors, data, payload) ==
  [rejects |-> FALSE, ok |-> ok, status |-> status, statusText |-> statusText,
   errors |-> errors, data |-> data, payload |-> payload]

\* one entry of the errors list: extensions is <<>> (absent) or <<e>>
GraphQLError(message, extensions) == [message |-> message, extensions |-> extensions]
Extensions(code, retryAfter) == [code |-> code, retryAfter |-> retryAfter]

SamplePayload == JObj(<<Member("totalCount", JNum(1))>>)

HttpOK == Response(TRUE, "200", "OK", <<>>, "object", SamplePayload)
Http500 == Response(FALSE, "500", "Internal Server Error", <<>>, "absent", JNull)
GraphQLErrors ==
  Response(TRUE, "200", "OK",
           <<GraphQLError("Rate limit exceeded",
                          <<Extensions(<<"RATE_LIMITED">>, <<30>>)>>),
             GraphQLError("Second error", <<>>)>>,
           "object", SamplePayload)
NoData == Response(TRUE, "200", "OK", <<>>, "absent", JNull)
FetchRejects == [Response(FALSE, "0", "", <<>>, "absent", JNull) EXCEPT !.rejects = TRUE]
NetOutcomes == {HttpOK, Http500, GraphQLErrors, NoData, FetchRejects}

\* the value a rejecting fetch rejects with (not an Error object)
RejectionValue == NonErrorValue(<<"socket hang up">>)

\* the root field of each operation document the modules send
RootField(operation) ==
  CASE operation \in {"LIST_CLIENTS_QUERY", "SEARCH_CLIENTS_QUERY"} -> "getClientList"
    [] operation = "GET_CLIENT_QUERY" -> "getClient"
    [] operation = "LIST_TICKETS_QUERY" -> "getTicketList"
    [] operation = "GET_TICKET_QUERY" -> "getTicket"
    [] operation = "CREATE_TICKET_MUTATION" -> "createTicket"
    [] operation = "UPDATE_TICKET_MUTATION" -> "updateTicket"
    [] operation = "ADD_TICKET_NOTE_MUTATION" -> "addTicketNote"
    [] operation = "ADD_TIME_ENTRY_MUTATION" -> "addTicketTimeEntry"
    [] operation = "LIST_ASSETS_QUERY" -> "getAssetList"
    [] operation = "GET_ASSET_QUERY" -> "getAsset"
    [] operation = "GET_ASSET_SOFTWARE_QUERY" -> "getAssetSoftwareList"
    [] operation = "GET_ASSET_PATCHES_QUERY" -> "getAssetPatchDetails"
    [] operation = "LIST_TECHNICIANS_QUERY" -> "getTechnicianList"
    [] operation = "GET_TECHNICIAN_QUERY" -> "getTechnician"
    [] operation = "LIST_TECH_GROUPS_QUERY" -> "getTechGroupList"
    [] operation = "query { viewer { id } }" -> "viewer"
    [] operation = "mutation { ping }" -> "ping"
    [] OTHER -> "data"

\* result.data of the parsed body, for the operation that was sent
BodyData(operation, net) ==
  CASE net.data = "absent" -> JUndefined
    [] net.data = "null" -> JNull
    [] OTHER -> JObj(<<Member(RootField(operation), net.payload)>>)

\* error.extensions?.code, error.extensions?.retryAfter
ExtensionCode(error) ==
  IF error.extensions = <<>> THEN <<>> ELSE error.extensions[1].code
ExtensionRetryAfter(error) ==
  IF error.extensions = <<>> THEN <<>> ELSE error.extensions[1].retryAfter

\* the outcome of an operation: a thrown error or a returned value, and
\* whether an HTTP POST was issued
Throws(error, posted) ==
  [thrown |-> TRUE, posted |-> posted, error |-> error, value |-> JUndefined]
Returns(value) ==
  [thrown |-> FALSE, posted |-> TRUE, error |-> NoError, value |-> value]

\* a plausible slip: the data check ahead of the errors check
query_DataFirst(c, operation, net) ==
  IF c.endpoint = undefined
  THEN Throws(ErrorValue("TypeError", <<"Failed to parse URL from ", undefined>>), FALSE)
  ELSE IF net.rejects
  THEN Throws(RejectionValue, TRUE)
  ELSE IF ~net.ok
  THEN Throws(ErrorValue("Error", <<"HTTP error: ", net.status, " ", net.statusText>>), TRUE)
  ELSE IF BodyData(operation, net) \notin {JUndefined, JNull}
  THEN Returns(BodyData(operation, net))
  ELSE IF Len(net.errors) > 0
  THEN Throws(SuperOpsError(net.errors[1].message, ExtensionCode(net.errors[1]),
                            ExtensionRetryAfter(net.errors[1])), TRUE)
  ELSE Throws(ErrorValue("Error", <<"No data returned from GraphQL query">>), TRUE)

\* SuperOpsClient.query: the outcome of one operation sent by client c
query(c, operation, net) ==
  IF c.endpoint = undefined
  THEN Throws(ErrorValue("TypeError", <<"Failed to parse URL from ", undefined>>), FALSE)
  ELSE IF net.rejects
  THEN Throws(RejectionValue, TRUE)
  ELSE IF ~net.ok
  THEN Throws(ErrorValue("Error", <<"HTTP error: ", net.status, " ", net.statusText>>), TRUE)
  ELSE IF Len(net.errors) > 0
  THEN Throws(SuperOpsError(net.errors[1].message, ExtensionCode(net.errors[1]),
                            ExtensionRetryAfter(net.errors[1])), TRUE)
  ELSE IF BodyData(operation, net) \in {JUndefined, JNull}
  THEN Throws(ErrorValue("Error", <<"No data returned from GraphQL query">>), TRUE)
  ELSE Returns(BodyData(operation, net))

\* SuperOpsClient.mutate reuses the query path
mutate(c, operation, net) == query(c, operation, net)

----------------------------------------------------------------------------
(* Domain modules: handleCall (domains/*.ts)                               *)

Has(args, key) == key \in DOMAIN args
NoArgs == [k \in {} |-> 0]
Min(a, b) == IF a < b THEN a ELSE b

\* the tools whose request carries first: Math.min(params.max ?? default, cap)
MaxDefault(name) ==
  CASE name = "superops_clients_list" -> 50
    [] name = "superops_clients_search" -> 20
    [] name = "superops_tickets_list" -> 50
    [] name = "superops_assets_list" -> 100
    [] name = "superops_assets_software" -> 100
    [] name = "superops_technicians_list" -> 50
    [] name = "superops_technicians_groups" -> 50
    [] OTHER -> 0
MaxCap(name) ==
  CASE name = "superops_clients_search" -> 100
    [] name \in {"superops_clients_list", "superops_tickets_list", "superops_assets_list",
                 "superops_assets_software", "superops_technicians_list",
                 "superops_technicians_groups"} -> 500
    [] OTHER -> 0
HasMax(name) == MaxCap(name) > 0

\* a plausible slip: the requested value sent without the cap
First_Unclamped(name, args) ==
  IF HasMax(name)
  THEN IF Has(args, "max") THEN args.max ELSE MaxDefault(name)
  ELSE 0

\* the 'first' of the outgoing input (0: the input has no 'first')
First(name, args) ==
  IF HasMax(name)
  THEN Min(IF Has(args, "max") THEN args.max ELSE MaxDefault(name), MaxCap(name))
  ELSE 0

Mutations ==
  {"superops_tickets_create", "superops_tickets_update", "superops_tickets_add_note",
   "superops_tickets_log_time", "superops_custom_mutation"}

\* a tool result: {content: [{type: "text", text}], isError?}
ToolResult(isError, text) == [thrown |-> FALSE, isError |-> isError, text |-> text,
                              error |-> NoError]
\* a handler that completes by throwing (its promise rejects)
Rejected(error) == [thrown |-> TRUE, isError |-> FALSE, text |-> <<>>, error |-> error]

\* a plausible slip: String(error) for every thrown value
ErrorMessage_String(error) == error.str

\* error instanceof Error ? error.message : String(error)
ErrorMessage(error) == IF error.isError THEN error.message ELSE error.str

\* "\n" followed by the indentation of a nesting depth (two spaces a level)
Newline(depth) ==
  CASE depth = 0 -> "\n"
    [] depth = 1 -> "\n  "
    [] depth = 2 -> "\n    "
    [] depth = 3 -> "\n      "
    [] OTHER -> "\n        "

\* the escaping JSON.stringify applies inside a string, over the strings the
\* payloads carry
Escape(s) ==
  CASE s = "say \"hi\"" -> "say \\\"hi\\\""
    [] s = "a\\b" -> "a\\\\b"
    [] s = "line1\nline2" -> "line1\\nline2"
    [] OTHER -> s

RECURSIVE Stringify(_, _)
RECURSIVE StringifyItems(_, _, _)
RECURSIVE StringifyMembers(_, _, _)
\* the elements of an array from position i on, each on its own line
StringifyItems(items, i, depth) ==
  IF i > Len(items) THEN <<>>
  ELSE <<Newline(depth)>>
       \o (IF items[i] = JUndefined THEN <<"null">> ELSE Stringify(items[i], depth))
       \o (IF i < Len(items) THEN <<",">> ELSE <<>>)
       \o StringifyItems(items, i + 1, depth)
\* the members of an object from position i on, each on its own line
StringifyMembers(members, i, depth) ==
  IF i > Len(members) THEN <<>>
  ELSE <<Newline(depth), "\"", Escape(members[i].k), "\"", ": ">>
       \o Stringify(members[i].v, depth)
       \o (IF i < Len(members) THEN <<",">> ELSE <<>>)
       \o StringifyMembers(members, i + 1, depth)
\* JSON.stringify(value, null, 2) at a nesting depth, fragment by fragment; a
\* string is its content between two quote fragments; members whose value is
\* undefined are left out; stringifying undefined itself yields undefined
Stringify(value, depth) ==
  CASE value = JUndefined -> <<undefined>>
    [] value = JNull -> <<"null">>
    [] DOMAIN value = {"bool"} -> IF value.bool THEN <<"true">> ELSE <<"false">>
    [] DOMAIN value = {"num"} -> <<ToString(value.num)>>
    [] DOMAIN value = {"str"} -> <<"\"", Escape(value.str), "\"">>
    [] DOMAIN value = {"arr"} ->
         IF value.arr = <<>> THEN <<"[]">>
         ELSE <<"[">> \o StringifyItems(value.arr, 1, depth + 1)
              \o <<Newline(depth), "]">>
    [] DOMAIN value = {"obj"} ->
         LET defined == SelectSeq(value.obj, LAMBDA m : m.v # JUndefined) IN
         IF defined = <<>> THEN <<"{}">>
         ELSE <<"{">> \o StringifyMembers(defined, 1, depth + 1)
              \o <<Newline(depth), "}">>

\* params.<key> as a JSON value (undefined when the argument is not given)
ArgStr(args, key) == IF Has(args, key) THEN JStr(args[key]) ELSE JUndefined
ArgNum(args, key) == IF Has(args, key) THEN JNum(args[key]) ELSE JUndefined
ArgStrs(args, key) ==
  IF Has(args, key) THEN JArr([i \in DOMAIN args[key] |-> JStr(args[key][i])])
  ELSE JUndefined
\* params.<key> ?? dflt for a boolean argument
ArgBoolOr(args, key, dflt) == JBool(IF Has(args, key) THEN args[key] ELSE dflt)

\* if (params.<key>): a string argument is truthy when given and non-empty,
\* an array whenever it is given, a boolean when it is true
TruthyStr(args, key) == Has(args, key) /\ args[key] # ""
TruthyArr(args, key) == Has(args, key)
TruthyBool(args, key) == Has(args, key) /\ args[key]

\* string.toUpperCase() over the strings the calls carry
ToUpperCase(s) ==
  CASE s = "critical" -> "CRITICAL"
    [] s = "High" -> "HIGH"
    [] s = "low" -> "LOW"
    [] s = "Resolved" -> "RESOLVED"
    [] s = "open" -> "OPEN"
    [] OTHER -> s

\* a plausible slip: priority passed through as given
Priority_AsGiven(s) == s

\* params.priority.toUpperCase()
Priority(s) == ToUpperCase(s)

OrderBy(field, direction) ==
  JObj(<<Member("field", JStr(field)), Member("direction", JStr(direction))>>)
Ref(key, value) == JObj(<<Member(key, value)>>)

\* if (cond) object[key] = value: the member the statement contributes
When(cond, key, value) == IF cond THEN <<Member(key, value)>> ELSE <<>>

\* a plausible slip: unassigned honoured only without an assigneeId
TicketsFilter_AssigneeWins(args) ==
  JObj(When(TruthyArr(args, "status"), "status", ArgStrs(args, "status"))
       \o When(TruthyArr(args, "priority"), "priority", ArgStrs(args, "priority"))
       \o When(TruthyStr(args, "clientId"), "client",
               Ref("accountId", ArgStr(args, "clientId")))
       \o When(TruthyStr(args, "assigneeId") \/ TruthyBool(args, "unassigned"), "assignee",
               IF TruthyStr(args, "assigneeId") THEN Ref("id", ArgStr(args, "assigneeId"))
               ELSE JNull))

\* the filter superops_tickets_list builds; assignee is assigned {id} for an
\* assigneeId and then null for unassigned, the later assignment replacing
\* the earlier in place
TicketsFilter(args) ==
  JObj(When(TruthyArr(args, "status"), "status", ArgStrs(args, "status"))
       \o When(TruthyArr(args, "priority"), "priority", ArgStrs(args, "priority"))
       \o When(TruthyStr(args, "clientId"), "client",
               Ref("accountId", ArgStr(args, "clientId")))
       \o When(TruthyStr(args, "assigneeId") \/ TruthyBool(args, "unassigned"), "assignee",
               IF TruthyBool(args, "unassigned") THEN JNull
               ELSE Ref("id", ArgStr(args, "assigneeId"))))

\* a plausible slip: isActive added only when activeOnly is given as true
TechniciansFilter_OptIn(args) ==
  JObj(When(Has(args, "activeOnly") /\ args.activeOnly = TRUE, "isActive", JBool(TRUE))
       \o When(TruthyStr(args, "teamId"), "teams", Ref("id", ArgStr(args, "teamId"))))

\* the filter superops_technicians_list builds
TechniciansFilter(args) ==
  JObj(When(~(Has(args, "activeOnly") /\ args.activeOnly = FALSE), "isActive", JBool(TRUE))
       \o When(TruthyStr(args, "teamId"), "teams", Ref("id", ArgStr(args, "teamId"))))

\* the filter each list tool builds before it decides whether to send it
Filter(name, args) ==
  CASE name = "superops_clients_list" ->
         JObj(When(TruthyStr(args, "status"), "status", ArgStr(args, "status"))
              \o When(TruthyStr(args, "stage"), "stage", ArgStr(args, "stage")))
    [] name = "superops_tickets_list" -> TicketsFilter(args)
    [] name = "superops_assets_list" ->
         JObj(When(TruthyStr(args, "status"), "status", ArgStr(args, "status"))
              \o When(TruthyStr(args, "platform"), "platform", ArgStr(args, "platform"))
              \o When(TruthyStr(args, "clientId"), "client",
                      Ref("accountId", ArgStr(args, "clientId"))))
    [] name = "superops_assets_software" ->
         JObj(When(TruthyStr(args, "search"), "name",
                   Ref("contains", ArgStr(args, "search"))))
    [] name = "superops_assets_patches" ->
         JObj(When(TruthyStr(args, "status"), "status", ArgStr(args, "status"))
              \o When(TruthyArr(args, "severity"), "severity", ArgStrs(args, "severity")))
    [] name = "superops_technicians_list" -> TechniciansFilter(args)
    [] OTHER -> JObj(<<>>)

\* a plausible slip: the filter sent even when it is empty
WithFilter_Always(filter) == <<Member("filter", filter)>>

\* ...(Object.keys(filter).length > 0 && { filter })
WithFilter(filter) == When(Keys(filter) # {}, "filter", filter)

\* ...(params.cursor && { after: params.cursor })
WithAfter(args) == When(TruthyStr(args, "cursor"), "after", ArgStr(args, "cursor"))

\* a plausible slip: status upper-cased the way priority is
TicketsUpdateInput_UpperStatus(args) ==
  JObj(<<Member("ticketId", ArgStr(args, "ticketId"))>>
       \o (IF TruthyStr(args, "status")
           THEN <<Member("status", JStr(ToUpperCase(args.status)))>> ELSE <<>>)
       \o (IF TruthyStr(args, "priority")
           THEN <<Member("priority", JStr(Priority(args.priority)))>> ELSE <<>>)
       \o When(TruthyStr(args, "assigneeId"), "assignee",
               Ref("id", ArgStr(args, "assigneeId")))
       \o When(TruthyStr(args, "techGroupName"), "techGroup",
               Ref("name", ArgStr(args, "techGroupName")))
       \o When(TruthyStr(args, "resolution"), "resolution", ArgStr(args, "resolution")))

\* the input superops_tickets_update builds
TicketsUpdateInput(args) ==
  JObj(<<Member("ticketId", ArgStr(args, "ticketId"))>>
       \o When(TruthyStr(args, "status"), "status", ArgStr(args, "status"))
       \o (IF TruthyStr(args, "priority")
           THEN <<Member("priority", JStr(Priority(args.priority)))>> ELSE <<>>)
       \o When(TruthyStr(args, "assigneeId"), "assignee",
               Ref("id", ArgStr(args, "assigneeId")))
       \o When(TruthyStr(args, "techGroupName"), "techGroup",
               Ref("name", ArgStr(args, "techGroupName")))
       \o When(TruthyStr(args, "resolution"), "resolution", ArgStr(args, "resolution")))

\* the 'input' each typed tool sends
Input(name, args) ==
  CASE name = "superops_clients_list" ->
         JObj(<<Member("first", JNum(First(name, args)))>>
              \o WithAfter(args) \o WithFilter(Filter(name, args))
              \o <<Member("orderBy", OrderBy("name", "ASC"))>>)
    [] name = "superops_clients_get" -> Ref("accountId", ArgStr(args, "accountId"))
    [] name = "superops_clients_search" ->
         JObj(<<Member("first", JNum(First(name, args))),
                Member("filter",
                  Ref("or", JArr(<<Ref("name", Ref("contains", ArgStr(args, "query"))),
                                   Ref("emailDomains",
                                       Ref("contains", ArgStr(args, "query")))>>)))>>)
    [] name = "superops_tickets_list" ->
         JObj(<<Member("first", JNum(First(name, args)))>>
              \o WithAfter(args) \o WithFilter(Filter(name, args))
              \o <<Member("orderBy", OrderBy("createdTime", "DESC"))>>)
    [] name = "superops_tickets_get" -> Ref("ticketId", ArgStr(args, "ticketId"))
    [] name = "superops_tickets_create" ->
         JObj(<<Member("subject", ArgStr(args, "subject")),
                Member("client", Ref("accountId", ArgStr(args, "clientId")))>>
              \o When(TruthyStr(args, "description"), "description",
                      ArgStr(args, "description"))
              \o (IF TruthyStr(args, "priority")
                  THEN <<Member("priority", JStr(Priority(args.priority)))>> ELSE <<>>)
              \o When(TruthyStr(args, "requesterEmail"), "requester",
                      Ref("email", ArgStr(args, "requesterEmail")))
              \o When(TruthyStr(args, "techGroupName"), "techGroup",
                      Ref("name", ArgStr(args, "techGroupName")))
              \o When(TruthyStr(args, "categoryName"), "category",
                      Ref("name", ArgStr(args, "categoryName"))))
    [] name = "superops_tickets_update" -> TicketsUpdateInput(args)
    [] name = "superops_tickets_add_note" ->
         JObj(<<Member("ticketId", ArgStr(args, "ticketId")),
                Member("content", ArgStr(args, "content")),
                Member("isPublic", ArgBoolOr(args, "isPublic", FALSE))>>)
    [] name = "superops_tickets_log_time" ->
         JObj(<<Member("ticketId", ArgStr(args, "ticketId")),
                Member("duration", ArgNum(args, "duration")),
                Member("description", ArgStr(args, "description")),
                Member("workType", ArgStr(args, "workType")),
                Member("billable", ArgBoolOr(args, "billable", TRUE))>>)
    [] name = "superops_assets_list" ->
         JObj(<<Member("first", JNum(First(name, args)))>>
              \o WithAfter(args) \o WithFilter(Filter(name, args))
              \o <<Member("orderBy", OrderBy("name", "ASC"))>>)
    [] name = "superops_assets_get" -> Ref("assetId", ArgStr(args, "assetId"))
    [] name = "superops_assets_software" ->
         JObj(<<Member("assetId", ArgStr(args, "assetId")),
                Member("first", JNum(First(name, args)))>>
              \o WithFilter(Filter(name, args)))
    [] name = "superops_assets_patches" ->
         JObj(<<Member("assetId", ArgStr(args, "assetId"))>>
              \o WithFilter(Filter(name, args)))
    [] name = "superops_technicians_list" ->
         JObj(<<Member("first", JNum(First(name, args)))>>
              \o WithAfter(args) \o WithFilter(Filter(name, args))
              \o <<Member("orderBy", OrderBy("name", "ASC"))>>)
    [] name = "superops_technicians_get" -> Ref("id", ArgStr(args, "technicianId"))
    [] name = "superops_technicians_groups" ->
         JObj(<<Member("first", JNum(First(name, args)))>>)

\* the variables of the operation: {input} for the typed tools, the
\* caller's variables for the custom ones
Variables(name, args) ==
  IF name \in {"superops_custom_query", "superops_custom_mutation"}
  THEN IF Has(args, "variables") THEN args.variables ELSE JUndefined
  ELSE Ref("input", Input(name, args))

\* the operation document each tool sends (for the custom tools, the string
\* the caller gave)
Operation(name, args) ==
  CASE name = "superops_clients_list" -> "LIST_CLIENTS_QUERY"
    [] name = "superops_clients_get" -> "GET_CLIENT_QUERY"
    [] name = "superops_clients_search" -> "SEARCH_CLIENTS_QUERY"
    [] name = "superops_tickets_list" -> "LIST_TICKETS_QUERY"
    [] name = "superops_tickets_get" -> "GET_TICKET_QUERY"
    [] name = "superops_tickets_create" -> "CREATE_TICKET_MUTATION"
    [] name = "superops_tickets_update" -> "UPDATE_TICKET_MUTATION"
    [] name = "superops_tickets_add_note" -> "ADD_TICKET_NOTE_MUTATION"
    [] name = "superops_tickets_log_time" -> "ADD_TIME_ENTRY_MUTATION"
    [] name = "superops_assets_list" -> "LIST_ASSETS_QUERY"
    [] name = "superops_assets_get" -> "GET_ASSET_QUERY"
    [] name = "superops_assets_software" -> "GET_ASSET_SOFTWARE_QUERY"
    [] name = "superops_assets_patches" -> "GET_ASSET_PATCHES_QUERY"
    [] name = "superops_technicians_list" -> "LIST_TECHNICIANS_QUERY"
    [] name = "superops_technicians_get" -> "GET_TECHNICIAN_QUERY"
    [] name = "superops_technicians_groups" -> "LIST_TECH_GROUPS_QUERY"
    [] name = "superops_custom_query" ->
         IF Has(args, "query") THEN args.query ELSE undefined
    [] name = "superops_custom_mutation" ->
         IF Has(args, "mutation") THEN args.mutation ELSE undefined

\* the property of the response each typed tool puts in its result
ResponseProperty(name) ==
  CASE name \in {"superops_clients_list", "superops_clients_search"} -> "getClientList"
    [] name = "superops_clients_get" -> "getClient"
    [] name = "superops_tickets_list" -> "getTicketList"
    [] name = "superops_tickets_get" -> "getTicket"
    [] name = "superops_tickets_create" -> "createTicket"
    [] name = "superops_tickets_update" -> "updateTicket"
    [] name = "superops_tickets_add_note" -> "addTicketNote"
    [] name = "superops_tickets_log_time" -> "addTicketTimeEntry"
    [] name = "superops_assets_list" -> "getAssetList"
    [] name = "superops_assets_get" -> "getAsset"
    [] name = "superops_assets_software" -> "getAssetSoftwareList"
    [] name = "superops_assets_patches" -> "getAssetPatchDetails"
    [] name = "superops_technicians_list" -> "getTechnicianList"
    [] name = "superops_technicians_get" -> "getTechnician"
    [] name = "superops_technicians_groups" -> "getTechGroupList"

CustomTools == {"superops_custom_query", "superops_custom_mutation"}

\* a plausible slip: the whole response where its property is meant
ResultPayload_Whole(name, response) == response

\* what a tool stringifies: response.<property>, or the whole response for
\* the custom tools
ResultPayload(name, response) ==
  IF name \in CustomTools THEN response ELSE Get(response, ResponseProperty(name))

\* the case labels of a module's switch (name)
SwitchCases(domain) ==
  CASE domain = "clients" ->
         {"superops_clients_list", "superops_clients_get", "superops_clients_search"}
    [] domain = "tickets" ->
         {"superops_tickets_list", "superops_tickets_get", "superops_tickets_create",
          "superops_tickets_update", "superops_tickets_add_note",
          "superops_tickets_log_time"}
    [] domain = "assets" ->
         {"superops_assets_list", "superops_assets_get", "superops_assets_software",
          "superops_assets_patches"}
    [] domain = "technicians" ->
         {"superops_technicians_list", "superops_technicians_get",
          "superops_technicians_groups"}
    [] domain = "custom" -> {"superops_custom_query", "superops_custom_mutation"}

\* <module>.handleCall(name, args): result, the new _client, the operations
\* sent through the transport client
handleCall(domain, name, args, net) ==
  LET gc == getClient IN
  IF gc.thrown
  THEN [result |-> Rejected(gc.error), client |-> gc.client, requests |-> <<>>]
  ELSE IF name \notin SwitchCases(domain)
  THEN [result |-> ToolResult(TRUE, <<"Unknown ", domain, " tool: ", name>>),
        client |-> gc.client, requests |-> <<>>]
  ELSE LET c == gc.client[1]
           operation == Operation(name, args)
           r == IF name \in Mutations THEN mutate(c, operation, net)
                ELSE query(c, operation, net)
           req == [tool |-> name, first |-> First(name, args), client |-> c,
                   posted |-> r.posted, response |-> net,
                   method |-> IF name \in Mutations THEN "mutate" ELSE "query",
                   operation |-> operation, variables |-> Variables(name, args)]
       IN [result |-> IF r.thrown
                      THEN ToolResult(TRUE, <<"Error: ">> \o ErrorMessage(r.error))
                      ELSE ToolResult(FALSE, Stringify(ResultPayload(name, r.value), 0)),
           client |-> gc.client, requests |-> <<req>>]

----------------------------------------------------------------------------
(* Navigation / dispatch core (index.ts)                                   *)

RECURSIVE Join(_, _)
\* array.join(sep), fragment by fragment
Join(s, sep) ==
  IF Len(s) = 0 THEN <<>>
  ELSE IF Len(s) = 1 THEN <<s[1]>>
  ELSE <<s[1], sep>> \o Join(Tail(s), sep)

NoCredentialsText ==
  <<"Error: No API credentials configured. Please set ", "SUPEROPS_API_TOKEN", " and ",
    "SUPEROPS_SUBDOMAIN", " environment variables.">>

\* what a handler run yields: the new currentDomain, domainCache and _client,
\* the result, the domain handlers invoked and the transport operations sent
Outcome(cd, cache, client, result, handled, requests) ==
  [cd |-> cd, cache |-> cache, client |-> client, result |-> result,
   handled |-> handled, requests |-> requests]

\* a plausible slip: a static manifest that always advertises navigate
ListToolsHandler_Static ==
  IF currentDomain = null
  THEN <<testConnectionTool, navigationTool>>
  ELSE <<testConnectionTool, navigationTool, backTool>> \o DomainModule(currentDomain)

\* ListTools handler: the advertised tool names, in order
ListToolsHandler ==
  IF currentDomain = null
  THEN <<testConnectionTool, navigationTool>>
  ELSE <<testConnectionTool, backTool>> \o DomainModule(currentDomain)

\* a plausible slip: the probe lists clients with the default page size
TestConnection_DefaultMax(net) ==
  IF getCredentials = <<>>
  THEN Outcome(currentDomain, domainCache, _client, ToolResult(TRUE, NoCredentialsText),
               <<>>, <<>>)
  ELSE LET creds == getCredentials[1]
           cache == loadDomain(domainCache, "clients")
           h == handleCall("clients", "superops_clients_list", NoArgs, net)
           handled == <<[domain |-> "clients", name |-> "superops_clients_list"]>>
       IN IF h.result.thrown \/ h.result.isError
          THEN Outcome(currentDomain, cache, h.client, h.result, handled, h.requests)
          ELSE Outcome(currentDomain, cache, h.client,
                 ToolResult(FALSE,
                   <<"Connection successful!\n\nCredentials configured for:\n- Subdomain: ",
                     creds.subdomain, "\n- Region: ", Coalesce(creds.region, "us"),
                     "\n\nAPI is responding correctly.">>),
                 handled, h.requests)

\* a plausible slip: a successful probe leaves the clients domain active
TestConnection_Navigates(net) ==
  IF getCredentials = <<>>
  THEN Outcome(currentDomain, domainCache, _client, ToolResult(TRUE, NoCredentialsText),
               <<>>, <<>>)
  ELSE LET creds == getCredentials[1]
           cache == loadDomain(domainCache, "clients")
           h == handleCall("clients", "superops_clients_list", [max |-> 1], net)
           handled == <<[domain |-> "clients", name |-> "superops_clients_list"]>>
       IN IF h.result.thrown
          THEN Outcome(currentDomain, cache, h.client,
                 ToolResult(TRUE, <<"Connection test failed: ">>
                                    \o ErrorMessage(h.result.error)),
                 handled, h.requests)
          ELSE IF h.result.isError
          THEN Outcome(currentDomain, cache, h.client, h.result, handled, h.requests)
          ELSE Outcome("clients", cache, h.client,
                 ToolResult(FALSE,
                   <<"Connection successful!\n\nCredentials configured for:\n- Subdomain: ",
                     creds.subdomain, "\n- Region: ", Coalesce(creds.region, "us"),
                     "\n\nAPI is responding correctly.">>),
                 handled, h.requests)

\* CallTool handler, name === "superops_test_connection"
TestConnection(net) ==
  IF getCredentials = <<>>
  THEN Outcome(currentDomain, domainCache, _client, ToolResult(TRUE, NoCredentialsText),
               <<>>, <<>>)
  ELSE LET creds == getCredentials[1]
           cache == loadDomain(domainCache, "clients")
           h == handleCall("clients", "superops_clients_list", [max |-> 1], net)
           handled == <<[domain |-> "clients", name |-> "superops_clients_list"]>>
       IN IF h.result.thrown
          THEN Outcome(currentDomain, cache, h.client,
                 ToolResult(TRUE, <<"Connection test failed: ">>
                                    \o ErrorMessage(h.result.error)),
                 handled, h.requests)
          ELSE IF h.result.isError
          THEN Outcome(currentDomain, cache, h.client, h.result, handled, h.requests)
          ELSE Outcome(currentDomain, cache, h.client,
                 ToolResult(FALSE,
                   <<"Connection successful!\n\nCredentials configured for:\n- Subdomain: ",
                     creds.subdomain, "\n- Region: ", Coalesce(creds.region, "us"),
                     "\n\nAPI is responding correctly.">>),
                 handled, h.requests)

\* a plausible slip: the domain argument is compared ignoring case
Navigate_IgnoreCase(args) ==
  LET given == IF Has(args, "domain") THEN args.domain ELSE undefined
      domain == IF given = "Clients" THEN "clients" ELSE given
  IN IF Falsy(domain) \/ domain \notin Range(validDomains)
     THEN Outcome(currentDomain, domainCache, _client,
            ToolResult(TRUE, <<"Invalid domain. Please choose from: ">>
                               \o Join(validDomains, ", ")),
            <<>>, <<>>)
     ELSE Outcome(domain, loadDomain(domainCache, domain), _client,
            ToolResult(FALSE, <<"Navigated to ", domain, " domain. Available tools:\n\n">>
                                \o Join(DomainModule(domain), "\n")
                                \o <<"\n\nUse superops_back to return to the main menu.">>),
            <<>>, <<>>)

\* CallTool handler, name === "superops_navigate"
Navigate(args) ==
  LET domain == IF Has(args, "domain") THEN args.domain ELSE undefined IN
  IF Falsy(domain) \/ domain \notin Range(validDomains)
  THEN Outcome(currentDomain, domainCache, _client,
         ToolResult(TRUE, <<"Invalid domain. Please choose from: ">>
                            \o Join(validDomains, ", ")),
         <<>>, <<>>)
  ELSE Outcome(domain, loadDomain(domainCache, domain), _client,
         ToolResult(FALSE, <<"Navigated to ", domain, " domain. Available tools:\n\n">>
                             \o Join(DomainModule(domain), "\n")
                             \o <<"\n\nUse superops_back to return to the main menu.">>),
         <<>>, <<>>)

\* a plausible slip: back answers without resetting currentDomain
Back_KeepDomain ==
  Outcome(currentDomain, domainCache, _client,
    ToolResult(FALSE, <<"Returned to main navigation.">>), <<>>, <<>>)

\* CallTool handler, name === "superops_back"
Back ==
  Outcome(null, domainCache, _client,
    ToolResult(FALSE, <<"Returned to main navigation. Use superops_navigate to select a domain:\n\n- ",
                        "clients", ": Manage client accounts and contacts\n- ",
                        "tickets", ": Service desk and ticket management\n- ",
                        "assets", ": Endpoint inventory and RMM\n- ",
                        "technicians", ": Agent and team management\n- ",
                        "custom", ": Advanced GraphQL queries">>),
    <<>>, <<>>)

\* the call is handed to a domain module: return domainTools.handleCall(name, args)
Dispatch(cd, cache, domain, name, args, net) ==
  LET h == handleCall(domain, name, args, net) IN
  Outcome(cd, cache, h.client, h.result,
          <<[domain |-> domain, name |-> name]>>, h.requests)

RECURSIVE Fallback_NoSwitch(_, _, _, _, _)
\* a plausible slip: the resolved domain is dispatched to but not made active
Fallback_NoSwitch(i, cache, name, args, net) ==
  IF i > Len(allDomains)
  THEN Outcome(currentDomain, cache, _client,
         ToolResult(TRUE, <<"Unknown tool: ", name,
                            ". Use superops_navigate to explore available tools.">>),
         <<>>, <<>>)
  ELSE LET domain == allDomains[i]
           loaded == loadDomain(cache, domain)
       IN IF toolBelongsToDomain(domain, name)
          THEN Dispatch(currentDomain, loaded, domain, name, args, net)
          ELSE Fallback_NoSwitch(i + 1, loaded, name, args, net)

RECURSIVE Fallback_SwitchWhileScanning(_, _, _, _, _, _)
\* a plausible slip: currentDomain is assigned before the catalog is checked
Fallback_SwitchWhileScanning(i, cd, cache, name, args, net) ==
  IF i > Len(allDomains)
  THEN Outcome(cd, cache, _client,
         ToolResult(TRUE, <<"Unknown tool: ", name,
                            ". Use superops_navigate to explore available tools.">>),
         <<>>, <<>>)
  ELSE LET domain == allDomains[i]
           loaded == loadDomain(cache, domain)
       IN IF toolBelongsToDomain(domain, name)
          THEN Dispatch(domain, loaded, domain, name, args, net)
          ELSE Fallback_SwitchWhileScanning(i + 1, domain, loaded, name, args, net)

Fallback_SwitchOnUnknown(i, cache, name, args, net) ==
  Fallback_SwitchWhileScanning(i, currentDomain, cache, name, args, net)

RECURSIVE Fallback_SwitchOnSuccess(_, _, _, _, _)
\* a plausible slip: currentDomain is assigned after the dispatched call, and
\* only when it did not end in an error
Fallback_SwitchOnSuccess(i, cache, name, args, net) ==
  IF i > Len(allDomains)
  THEN Outcome(currentDomain, cache, _client,
         ToolResult(TRUE, <<"Unknown tool: ", name,
                            ". Use superops_navigate to explore available tools.">>),
         <<>>, <<>>)
  ELSE LET domain == allDomains[i]
           loaded == loadDomain(cache, domain)
       IN IF toolBelongsToDomain(domain, name)
          THEN LET d == Dispatch(domain, loaded, domain, name, args, net) IN
               IF d.result.thrown \/ d.result.isError
               THEN [d EXCEPT !.cd = currentDomain]
               ELSE d
          ELSE Fallback_SwitchOnSuccess(i + 1, loaded, name, args, net)

RECURSIVE Fallback(_, _, _, _, _)
\* for (const domain of allDomains), from position i with the cache so far
Fallback(i, cache, name, args, net) ==
  IF i > Len(allDomains)
  THEN Outcome(currentDomain, cache, _client,
         ToolResult(TRUE, <<"Unknown tool: ", name,
                            ". Use superops_navigate to explore available tools.">>),
         <<>>, <<>>)
  ELSE LET domain == allDomains[i]
           loaded == loadDomain(cache, domain)
       IN IF toolBelongsToDomain(domain, name)
          THEN Dispatch(domain, loaded, domain, name, args, net)
          ELSE Fallback(i + 1, loaded, name, args, net)

\* a plausible slip: no credential gate in front of the domain operations
DomainCall_NoGate(name, args, net) ==
  IF currentDomain # null /\ toolBelongsToDomain(currentDomain, name)
  THEN Dispatch(currentDomain, loadDomain(domainCache, currentDomain),
                currentDomain, name, args, net)
  ELSE Fallback(1, IF currentDomain # null THEN loadDomain(domainCache, currentDomain)
                   ELSE domainCache,
                name, args, net)

\* CallTool handler, past the three navigation tools
DomainCall(name, args, net) ==
  IF getCredentials = <<>>
  THEN Outcome(currentDomain, domainCache, _client, ToolResult(TRUE, NoCredentialsText),
               <<>>, <<>>)
  ELSE IF currentDomain # null /\ toolBelongsToDomain(currentDomain, name)
  THEN Dispatch(currentDomain, loadDomain(domainCache, currentDomain),
                currentDomain, name, args, net)
  ELSE Fallback(1, IF currentDomain # null THEN loadDomain(domainCache, currentDomain)
                   ELSE domainCache,
                name, args, net)

\* a plausible slip: the credential gate in front of navigate and back
CallToolHandler_GateFirst(name, args, net) ==
  IF name = "superops_test_connection" THEN TestConnection(net)
  ELSE IF getCredentials = <<>>
  THEN Outcome(currentDomain, domainCache, _client, ToolResult(TRUE, NoCredentialsText),
               <<>>, <<>>)
  ELSE IF name = "superops_navigate" THEN Navigate(args)
  ELSE IF name = "superops_back" THEN Back
  ELSE DomainCall(name, args, net)

\* server.setRequestHandler(CallToolRequestSchema, ...)
CallToolHandler(name, args, net) ==
  IF name = "superops_test_connection" THEN TestConnection(net)
  ELSE IF name = "superops_navigate" THEN Navigate(args)
  ELSE IF name = "superops_back" THEN Back
  ELSE DomainCall(name, args, net)

----------------------------------------------------------------------------
(* Inputs                                                                  *)

DomainToolNames == UNION {Range(DomainModule(d)) : d \in Domains}
NavigationToolNames == {testConnectionTool, navigationTool, backTool}

\* the tool names requests are made with: the navigation tools, tools of every
\* domain (queries and mutations, with and without a max parameter) and a
\* name no catalog has
CalledDomainTools ==
  {"superops_clients_list", "superops_clients_search", "superops_tickets_create",
   "superops_assets_patches", "superops_technicians_groups", "superops_custom_query"}
ToolNames == CalledDomainTools \cup NavigationToolNames \cup {"unknown_tool"}

NavigateArgs ==
  {NoArgs} \cup {[domain |-> d] : d \in Domains \cup {"", "invalid", "Clients"}}
ArgsFor(name) ==
  IF name = navigationTool THEN NavigateArgs
  ELSE IF name = "superops_clients_list" THEN {NoArgs, [max |-> 1000]}
  ELSE {NoArgs}

\* a tool of another module's catalog
ForeignTool(domain) ==
  IF domain = "clients" THEN "superops_tickets_get" ELSE "superops_clients_get"

Environment(token, subdomain, region) ==
  [SUPEROPS_API_TOKEN |-> token, SUPEROPS_SUBDOMAIN |-> subdomain,
   SUPEROPS_REGION |-> region]
Environments ==
  {Environment(undefined, "acme", "us"),
   Environment("tok", "", undefined),
   Environment("tok", "acme", undefined),
   Environment("tok", "beta", "eu")}

ConfiguredEnvironments ==
  {e \in Environments : ~Falsy(e.SUPEROPS_API_TOKEN) /\ ~Falsy(e.SUPEROPS_SUBDOMAIN)}

\* arguments with one more key
With(args, key, value) ==
  [k \in DOMAIN args \cup {key} |-> IF k = key THEN value ELSE args[k]]
\* the argument records of S, each also with the optional key at each value
Optional(S, key, values) == S \cup {With(a, key, v) : a \in S, v \in values}

\* the 'max' values requested: below, at and above every default and cap
MaxValues == {0, 1, 19, 20, 21, 50, 99, 100, 101, 499, 500, 501, 1000}

\* the required arguments of each tool
RequiredArgs(name) ==
  CASE name = "superops_clients_get" -> [accountId |-> "acc-1"]
    [] name = "superops_clients_search" -> [query |-> "acme"]
    [] name = "superops_tickets_get" -> [ticketId |-> "tkt-1"]
    [] name = "superops_tickets_create" -> [subject |-> "Printer down", clientId |-> "acc-1"]
    [] name = "superops_tickets_update" -> [ticketId |-> "tkt-1"]
    [] name = "superops_tickets_add_note" -> [ticketId |-> "tkt-1", content |-> "note"]
    [] name = "superops_tickets_log_time" -> [ticketId |-> "tkt-1", duration |-> 30]
    [] name = "superops_assets_get" -> [assetId |-> "ast-1"]
    [] name = "superops_assets_software" -> [assetId |-> "ast-1"]
    [] name = "superops_assets_patches" -> [assetId |-> "ast-1"]
    [] name = "superops_technicians_get" -> [technicianId |-> "tech-1"]
    [] name = "superops_custom_query" -> [query |-> "query { viewer { id } }"]
    [] name = "superops_custom_mutation" -> [mutation |-> "mutation { ping }"]
    [] OTHER -> NoArgs

\* the required arguments with every combination of the optional ones
OptionalArgs(name) ==
  LET base == {RequiredArgs(name)} IN
  CASE name = "superops_clients_list" ->
         Optional(Optional(Optional(base, "status", {"Active", ""}),
                           "stage", {"Customer"}), "cursor", {"cur-1"})
    [] name = "superops_tickets_list" ->
         Optional(Optional(Optional(Optional(Optional(base,
           "status", {<<"open">>, <<>>}), "priority", {<<"high", "Low">>}),
           "clientId", {"acc-1"}), "assigneeId", {"tech-1"}), "unassigned", {TRUE, FALSE})
    [] name = "superops_tickets_create" ->
         Optional(Optional(Optional(Optional(Optional(base,
           "priority", {"critical", "High"}), "description", {"It is down"}),
           "requesterEmail", {"a@b.c"}), "techGroupName", {"Tier 1"}),
           "categoryName", {"Hardware"})
    [] name = "superops_tickets_update" ->
         Optional(Optional(Optional(Optional(Optional(base,
           "status", {"Resolved", "open"}), "priority", {"low", "critical"}),
           "assigneeId", {"tech-1"}), "techGroupName", {"Tier 1"}),
           "resolution", {"Replaced toner"})
    [] name = "superops_tickets_add_note" -> Optional(base, "isPublic", {TRUE, FALSE})
    [] name = "superops_tickets_log_time" ->
         Optional(Optional(Optional(base, "description", {"On site"}),
                           "workType", {"Remote"}), "billable", {TRUE, FALSE})
    [] name = "superops_assets_list" ->
         Optional(Optional(Optional(Optional(base, "status", {"Online"}),
           "platform", {"Windows"}), "clientId", {"acc-1"}), "cursor", {"cur-1"})
    [] name = "superops_assets_software" -> Optional(base, "search", {"chrome", ""})
    [] name = "superops_assets_patches" ->
         Optional(Optional(base, "status", {"Pending"}), "severity", {<<"Critical">>})
    [] name = "superops_technicians_list" ->
         Optional(Optional(Optional(base, "activeOnly", {TRUE, FALSE}),
                           "teamId", {"team-1"}), "cursor", {"cur-1"})
    [] name \in {"superops_custom_query", "superops_custom_mutation"} ->
         Optional(base, "variables", {JObj(<<Member("id", JNum(1))>>)})
    [] OTHER -> base

\* the arguments requests are built from: every combination of the optional
\* arguments, and every requested max
RequestArgs(name) ==
  IF HasMax(name)
  THEN Optional(OptionalArgs(name), "max", {1000})
       \cup Optional({RequiredArgs(name)}, "max", MaxValues)
  ELSE OptionalArgs(name)

\* payloads a response carries under the root field of its operation
ListPayload ==
  JObj(<<Member("clients",
           JArr(<<JObj(<<Member("accountId", JStr("acc-1")),
                         Member("name", JStr("say \"hi\"")),
                         Member("apiToken", JStr("secret")),
                         Member("site", JNull),
                         Member("tags", JArr(<<>>)),
                         Member("custom", JObj(<<>>))>>),
                  JNum(7), JNull>>)),
         Member("pageInfo", JObj(<<Member("hasNextPage", JBool(TRUE)),
                                   Member("endCursor", JStr("a\\b"))>>))>>)
Payloads ==
  {JNull, JNum(0), JBool(FALSE), JStr(""), JStr("line1\nline2"), JObj(<<>>),
   JArr(<<>>), JArr(<<JStr("a"), JNum(2)>>), SamplePayload, ListPayload}

\* the module whose catalog has the tool
ModuleOf(name) == CHOOSE d \in Domains : name \in Range(DomainModule(d))

\* the requests made of the modules: each tool with its argument combinations
\* answered by a plain success, and with its required arguments answered by
\* each payload
RequestCases(name) ==
  {[args |-> a, net |-> HttpOK] : a \in RequestArgs(name)}
  \cup {[args |-> RequiredArgs(name),
         net |-> Response(TRUE, "200", "OK", <<>>, "object", p)] : p \in Payloads}

\* the responses a transport operation is answered with: every status class,
\* with and without an errors list, with and without data
StatusLines ==
  {[ok |-> TRUE, status |-> "200", statusText |-> "OK"],
   [ok |-> FALSE, status |-> "500", statusText |-> "Internal Server Error"],
   [ok |-> FALSE, status |-> "429", statusText |-> "Too Many Requests"],
   [ok |-> FALSE, status |-> "401", statusText |-> "Unauthorized"]}
ErrorLists ==
  {<<>>,
   <<GraphQLError("Rate limit exceeded", <<Extensions(<<"RATE_LIMITED">>, <<30>>)>>),
     GraphQLError("Second error", <<Extensions(<<"INTERNAL">>, <<>>)>>)>>,
   <<GraphQLError("Not found", <<>>)>>,
   <<GraphQLError("Forbidden", <<Extensions(<<"FORBIDDEN">>, <<>>)>>)>>,
   <<GraphQLError("Slow down", <<Extensions(<<>>, <<5>>)>>)>>}
TransportResponses ==
  {Response(l.ok, l.status, l.statusText, e, d, SamplePayload) :
     l \in StatusLines, e \in ErrorLists, d \in {"absent", "null", "object"}}
  \cup {FetchRejects}
QueryOperations == {"LIST_CLIENTS_QUERY", "query { viewer { id } }"}
MutationOperations == {"CREATE_TICKET_MUTATION", "mutation { ping }"}

\* the network outcomes to enumerate for a request: one when the request
\* cannot reach the network
NetFor(reaches) == IF reaches THEN NetOutcomes ELSE {HttpOK}

\* the environments the client module is driven with: the token or the
\* subdomain unset or empty, and the region unset, empty, each supported
\* value and unsupported values
RegionEnvironments ==
  Environments
  \cup {Environment("tok", "acme", region) : region \in {"", "us", "ap", "EU"}}
  \cup {Environment("", "acme", "eu"), Environment("tok", undefined, "eu"),
        Environment(undefined, undefined, undefined)}

----------------------------------------------------------------------------
(* Actions                                                                 *)

Served(op, name, args, result, handled, requests, tools) ==
  [op |-> op, name |-> name, args |-> args, before |-> currentDomain,
   result |-> result, handled |-> handled, requests |-> requests, tools |-> tools]

NoResult == ToolResult(FALSE, <<>>)

\* the handler runs that can be suspended at the same time
Handlers == 1..2
\* a free slot, and a run suspended at `await loadDomain(domain)`: in the
\* navigate branch, in the active-domain dispatch, or at position i of the
\* fallback loop; overtaken collects the kinds of handler that assigned
\* currentDomain while the run was suspended
Idle ==
  [pc |-> "idle", name |-> "", args |-> NoArgs, awaiting |-> null, i |-> 0,
   overtaken |-> {}]
Awaiting(pc, name, args, domain, i) ==
  [pc |-> pc, name |-> name, args |-> args, awaiting |-> domain, i |-> i,
   overtaken |-> {}]

Init ==
  /\ currentDomain = null
  /\ domainCache = {}
  /\ env \in Environments
  /\ _client = <<>>
  /\ last = [op |-> "start", name |-> "", args |-> NoArgs, before |-> null,
             result |-> NoResult, handled |-> <<>>, requests |-> <<>>, tools |-> <<>>]
  /\ inflight = [h \in Handlers |-> Idle]

\* a tools/list request
ListTools ==
  /\ domainCache' = IF currentDomain = null THEN domainCache
                    ELSE loadDomain(domainCache, currentDomain)
  /\ last' = Served("list", "", NoArgs, NoResult, <<>>, <<>>, ListToolsHandler)
  /\ UNCHANGED <<currentDomain, env, _client, inflight>>

\* a tools/call request
CallTool ==
  \E name \in ToolNames : \E args \in ArgsFor(name) :
  \E net \in NetFor(getCredentials # <<>> /\ name \notin {navigationTool, backTool}) :
    LET o == CallToolHandler(name, args, net) IN
    /\ currentDomain' = o.cd
    /\ domainCache' = o.cache
    /\ _client' = o.client
    /\ last' = Served("call", name, args, o.result, o.handled, o.requests, <<>>)
    /\ UNCHANGED <<env, inflight>>

\* a domain module's handleCall invoked directly, as its unit tests do: with
\* a tool of the module, a name no catalog has, or a tool of another module
HandleCall ==
  \E domain \in Domains :
  \E name \in (CalledDomainTools \cap Range(DomainModule(domain)))
              \cup {"unknown_tool", ForeignTool(domain)} :
  \E args \in ArgsFor(name) :
  \E net \in NetFor(name \in SwitchCases(domain) /\ getClient.client # <<>>) :
    LET h == handleCall(domain, name, args, net) IN
    /\ _client' = h.client
    /\ last' = Served("handleCall", name, args, h.result,
                      <<[domain |-> domain, name |-> name]>>, h.requests, <<>>)
    /\ UNCHANGED <<currentDomain, domainCache, env, inflight>>

\* a domain module's handleCall invoked with each of its tools, every
\* combination of arguments and every payload
HandleRequest ==
  \E name \in DomainToolNames : \E c \in RequestCases(name) :
    LET h == handleCall(ModuleOf(name), name, c.args, c.net) IN
    /\ _client' = h.client
    /\ last' = Served("handleCall", name, c.args, h.result,
                      <<[domain |-> ModuleOf(name), name |-> name]>>, h.requests, <<>>)
    /\ UNCHANGED <<currentDomain, domainCache, env, inflight>>

\* what the transport client was asked and what came of it
Sent(method, c, operation, net, outcome) ==
  [method |-> method, client |-> c, operation |-> operation, response |-> net,
   outcome |-> outcome]

\* getClient().query(operation, variables)
Query ==
  \E operation \in QueryOperations : \E net \in TransportResponses :
    LET gc == getClient IN
    /\ ~gc.thrown
    /\ _client' = gc.client
    /\ last' = Served("query", "", NoArgs, NoResult, <<>>,
                      <<Sent("query", gc.client[1], operation, net,
                             query(gc.client[1], operation, net))>>, <<>>)
    /\ UNCHANGED <<currentDomain, domainCache, env, inflight>>

\* getClient().mutate(mutation, variables)
Mutate ==
  \E operation \in MutationOperations : \E net \in TransportResponses :
    LET gc == getClient IN
    /\ ~gc.thrown
    /\ _client' = gc.client
    /\ last' = Served("mutate", "", NoArgs, NoResult, <<>>,
                      <<Sent("mutate", gc.client[1], operation, net,
                             mutate(gc.client[1], operation, net))>>, <<>>)
    /\ UNCHANGED <<currentDomain, domainCache, env, inflight>>

\* the environment variables are changed
SetEnv ==
  \E e \in Environments :
    /\ env' = e
    /\ last' = Served("env", "", NoArgs, NoResult, <<>>, <<>>, <<>>)
    /\ UNCHANGED <<currentDomain, domainCache, _client, inflight>>

\* resetClient()
resetClient ==
  /\ _client' = <<>>
  /\ last' = Served("reset", "", NoArgs, NoResult, <<>>, <<>>, <<>>)
  /\ UNCHANGED <<currentDomain, domainCache, env, inflight>>

\* getCredentials()
GetCredentials ==
  /\ last' = Served("getCredentials", "", NoArgs, NoResult, <<>>,
                    <<[credentials |-> getCredentials]>>, <<>>)
  /\ UNCHANGED <<currentDomain, domainCache, env, _client, inflight>>

\* getClient(): what was cached before, what was returned or thrown
GetClient ==
  LET gc == getClient IN
  /\ _client' = gc.client
  /\ last' = Served("getClient", "", NoArgs, NoResult, <<>>,
                    <<[cached |-> _client, thrown |-> gc.thrown, error |-> gc.error,
                       returned |-> IF gc.thrown THEN <<>> ELSE gc.client]>>, <<>>)
  /\ UNCHANGED <<currentDomain, domainCache, env, inflight>>

\* the environment variables are changed, to any value of the region too
SetRegionEnv ==
  \E e \in RegionEnvironments :
    /\ env' = e
    /\ last' = Served("env", "", NoArgs, NoResult, <<>>, <<>>, <<>>)
    /\ UNCHANGED <<currentDomain, domainCache, _client, inflight>>

\* the server as its host drives it: listings and calls, with the
\* environment and the client singleton changing in between
Next == ListTools \/ CallTool \/ SetEnv \/ resetClient

Spec == Init /\ [][Next]_vars

\* a domain module driven directly through its exported interface
ModuleNext == HandleCall \/ SetEnv \/ resetClient

ModuleSpec == Init /\ [][ModuleNext]_vars

\* a server started with credentials configured
ConfiguredInit == Init /\ env \in ConfiguredEnvironments

\* the domain modules driven through every tool with credentials configured
RequestNext == HandleRequest \/ resetClient

RequestSpec == ConfiguredInit /\ [][RequestNext]_vars

\* the transport client driven directly
TransportNext == Query \/ Mutate \/ resetClient

TransportSpec == ConfiguredInit /\ [][TransportNext]_vars

\* the client module (client.ts) driven through its exports, and the domain
\* modules on top of it, under every environment
ClientInit == Init /\ env \in RegionEnvironments

ClientNext == GetCredentials \/ GetClient \/ resetClient \/ SetRegionEnv \/ HandleCall

ClientSpec == ClientInit /\ [][ClientNext]_vars

\* Handlers invoked concurrently.  An async handler runs without interruption
\* up to an await and is resumed later, so the steps of a handler are its
\* stretches between the awaits of loadDomain; other handlers run in between.
\* (The awaits inside handleCall come after the last access to currentDomain
\* and domainCache and are part of the completing step.)

\* the tools called concurrently and the transport outcomes they meet
ConcurrentTools == {"superops_clients_list", "superops_tickets_create", "unknown_tool"}
ConcurrentNet == {HttpOK, Http500}

\* the suspended navigate runs other than h learn that currentDomain was
\* assigned by a handler of this kind
Overtaken(h, kind) ==
  [g \in Handlers |->
     IF g # h /\ inflight[g].pc = "navigate"
     THEN [inflight[g] EXCEPT !.overtaken = @ \cup {kind}]
     ELSE inflight[g]]

\* a handler run started or resumed without returning yet
Stepped(op, s) == Served(op, s.name, s.args, NoResult, <<>>, <<>>, <<>>)

\* a plausible slip: navigate waits for the module without assigning
\* currentDomain
NavigateBegin_NoSwitch(args) ==
  [cd |-> currentDomain,
   then |-> Awaiting("navigate", navigationTool, args, args.domain, 0)]

\* navigate with a valid domain, up to its await:
\* currentDomain = domain as Domain; ... await loadDomain(currentDomain)
NavigateBegin(args) ==
  [cd |-> args.domain,
   then |-> Awaiting("navigate", navigationTool, args, args.domain, 0)]

BeginNavigate ==
  \E h \in Handlers : \E d \in Domains :
    LET b == NavigateBegin([domain |-> d]) IN
    /\ inflight[h] = Idle
    /\ currentDomain' = b.cd
    /\ inflight' = [Overtaken(h, "navigate") EXCEPT ![h] = b.then]
    /\ last' = Stepped("begin", b.then)
    /\ UNCHANGED <<domainCache, env, _client>>

\* navigate resumed: the module is loaded and the success text returned
EndNavigate ==
  \E h \in Handlers :
    LET s == inflight[h] IN
    /\ s.pc = "navigate"
    /\ domainCache' = loadDomain(domainCache, s.awaiting)
    /\ last' = Served("call", navigationTool, s.args, Navigate(s.args).result, <<>>,
                      <<[handler |-> h, overtaken |-> s.overtaken]>>, <<>>)
    /\ inflight' = [inflight EXCEPT ![h] = Idle]
    /\ UNCHANGED <<currentDomain, env, _client>>

\* superops_back has no await: it runs to its return in one step
BackCall ==
  /\ currentDomain' = Back.cd
  /\ inflight' = Overtaken(0, "back")
  /\ last' = Served("call", backTool, NoArgs, Back.result, <<>>, <<>>, <<>>)
  /\ UNCHANGED <<domainCache, env, _client>>

\* a domain call past the credential gate, up to its first await: of the
\* active domain's module, or of the first module of the fallback loop
BeginDomainCall ==
  \E h \in Handlers : \E name \in ConcurrentTools :
    LET then == IF currentDomain # null
                THEN Awaiting("active", name, NoArgs, currentDomain, 0)
                ELSE Awaiting("scan", name, NoArgs, allDomains[1], 1)
    IN
    /\ inflight[h] = Idle
    /\ getCredentials # <<>>
    /\ inflight' = [inflight EXCEPT ![h] = then]
    /\ last' = Stepped("begin", then)
    /\ UNCHANGED <<currentDomain, domainCache, env, _client>>

\* resumed with the module that was the active domain's when the call began:
\* dispatch when it has the tool, otherwise enter the fallback loop
ResumeActive ==
  \E h \in Handlers : \E net \in ConcurrentNet :
    LET s == inflight[h]
        loaded == loadDomain(domainCache, s.awaiting)
        o == Dispatch(currentDomain, loaded, s.awaiting, s.name, s.args, net)
        then == Awaiting("scan", s.name, s.args, allDomains[1], 1)
    IN
    /\ s.pc = "active"
    /\ domainCache' = loaded
    /\ IF toolBelongsToDomain(s.awaiting, s.name)
       THEN /\ _client' = o.client
            /\ last' = Served("call", s.name, s.args, o.result, o.handled, o.requests, <<>>)
            /\ inflight' = [inflight EXCEPT ![h] = Idle]
       ELSE /\ inflight' = [inflight EXCEPT ![h] = then]
            /\ last' = Stepped("resume", then)
            /\ UNCHANGED _client
    /\ UNCHANGED <<currentDomain, env>>

\* resumed at position i of the fallback loop: switch and dispatch when the
\* module has the tool, otherwise go on to the next module or give up
ResumeScan ==
  \E h \in Handlers : \E net \in ConcurrentNet :
    LET s == inflight[h]
        loaded == loadDomain(domainCache, s.awaiting)
        o == Dispatch(s.awaiting, loaded, s.awaiting, s.name, s.args, net)
        then == Awaiting("scan", s.name, s.args, allDomains[s.i + 1], s.i + 1)
    IN
    /\ s.pc = "scan"
    /\ domainCache' = loaded
    /\ IF toolBelongsToDomain(s.awaiting, s.name)
       THEN /\ currentDomain' = o.cd
            /\ _client' = o.client
            /\ last' = Served("call", s.name, s.args, o.result, o.handled, o.requests, <<>>)
            /\ inflight' = [Overtaken(h, "fallback") EXCEPT ![h] = Idle]
       ELSE IF s.i < Len(allDomains)
       THEN /\ inflight' = [inflight EXCEPT ![h] = then]
            /\ last' = Stepped("resume", then)
            /\ UNCHANGED <<currentDomain, _client>>
       ELSE /\ inflight' = [inflight EXCEPT ![h] = Idle]
            /\ last' = Served("call", s.name, s.args,
                              ToolResult(TRUE, <<"Unknown tool: ", s.name,
                                ". Use superops_navigate to explore available tools.">>),
                              <<>>, <<>>, <<>>)
            /\ UNCHANGED <<currentDomain, _client>>
    /\ UNCHANGED env

ConcurrentNext ==
  BeginNavigate \/ EndNavigate \/ BackCall \/ BeginDomainCall \/ ResumeActive \/ ResumeScan

ConcurrentSpec == ConfiguredInit /\ [][ConcurrentNext]_vars

----------------------------------------------------------------------------
(* Properties                                                              *)

Contains(text, fragment) == \E i \in DOMAIN text : text[i] = fragment
Succeeded(result) == ~result.thrown /\ ~result.isError
Failed(result) == ~result.thrown /\ result.isError

IsCall(name) == last.op = "call" /\ last.name = name
CredentialsConfigured ==
  /\ env.SUPEROPS_API_TOKEN \notin {undefined, ""}
  /\ env.SUPEROPS_SUBDOMAIN \notin {undefined, ""}

TheFiveDomains == {"clients", "tickets", "assets", "technicians", "custom"}

\* C1: a superops_navigate call whose domain argument is one of the five
\* domains returns a non-error result and leaves the active domain equal to
\* that argument, from Navigation and from inside any domain, with or without
\* credentials.
C1_NavigateToValidDomain ==
  (IsCall("superops_navigate") /\ Has(last.args, "domain")
     /\ last.args.domain \in TheFiveDomains)
  => (Succeeded(last.result) /\ currentDomain = last.args.domain)

\* navigate moved from one domain to another with no credentials configured
C1_Witness ==
  /\ IsCall("superops_navigate") /\ Has(last.args, "domain")
  /\ last.args.domain = "tickets" /\ last.before = "clients"
  /\ ~CredentialsConfigured
  /\ currentDomain = "tickets"

\* C2: a superops_navigate call whose domain argument is missing or is not
\* one of the five domains returns an error result whose text lists the five
\* legal domains, and the active domain is the one before the call.
C2_NavigateToInvalidDomain ==
  (IsCall("superops_navigate")
     /\ (Has(last.args, "domain") => last.args.domain \notin TheFiveDomains))
  => /\ Failed(last.result)
     /\ \A d \in TheFiveDomains : Contains(last.result.text, d)
     /\ currentDomain = last.before

\* navigate without a domain argument was refused inside a domain
C2_Witness ==
  /\ IsCall("superops_navigate") /\ ~Has(last.args, "domain")
  /\ last.before = "assets" /\ currentDomain = "assets"
  /\ Failed(last.result)

\* C3: superops_back returns a non-error result and sets the active domain to
\* none in every state, with or without credentials, so that the listing that
\* follows is exactly the probe and navigate; in Navigation it is a successful
\* no-op.
C3_BackResets ==
  IsCall("superops_back")
  => /\ Succeeded(last.result)
     /\ currentDomain = null
     /\ ListToolsHandler = <<"superops_test_connection", "superops_navigate">>

\* back left a domain with no credentials configured
C3_Witness ==
  /\ IsCall("superops_back") /\ last.before = "tickets"
  /\ ~CredentialsConfigured /\ currentDomain = null

\* C4: a listing made in Navigation is exactly the probe and navigate; a
\* listing made in domain d is exactly the probe, back and d's catalog.
C4_ListingFollowsDomain ==
  last.op = "list"
  => /\ currentDomain = last.before
     /\ Len(last.tools) = Cardinality(Range(last.tools))
     /\ IF currentDomain = null
        THEN Range(last.tools) = {"superops_test_connection", "superops_navigate"}
        ELSE Range(last.tools) = {"superops_test_connection", "superops_back"}
                                   \cup Range(DomainModule(currentDomain))

\* a listing was made inside the tickets domain
C4_Witness ==
  /\ last.op = "list" /\ currentDomain = "tickets"
  /\ Contains(last.tools, "superops_tickets_create")
  /\ ~Contains(last.tools, "superops_navigate")

\* index of the first domain, in the fixed order, whose catalog has the name
FirstDomainWith(name) ==
  LET order == <<"clients", "tickets", "assets", "technicians", "custom">>
      i == CHOOSE k \in 1..5 :
             /\ name \in Range(DomainModule(order[k]))
             /\ \A j \in 1..(k - 1) : name \notin Range(DomainModule(order[j]))
  IN order[i]

OutsideActiveDomain(name) ==
  last.before = null \/ name \notin Range(DomainModule(last.before))

\* C5: with credentials configured, a call naming a tool that is not in the
\* active domain's catalog but is in some catalog makes the first domain (in
\* the fixed order) that has the name the active domain, and the call reaches
\* that domain's handler exactly once.
C5_FallbackResolution ==
  (last.op = "call" /\ CredentialsConfigured /\ last.name \in DomainToolNames
     /\ OutsideActiveDomain(last.name))
  => /\ currentDomain = FirstDomainWith(last.name)
     /\ last.handled = <<[domain |-> FirstDomainWith(last.name), name |-> last.name]>>

\* a clients tool called in Navigation ended in the clients domain
C5_Witness ==
  /\ IsCall("superops_clients_list") /\ CredentialsConfigured
  /\ last.before = null /\ currentDomain = "clients"
  /\ Len(last.handled) = 1

InsideActiveDomain(name) ==
  last.before # null /\ name \in Range(DomainModule(last.before))

\* C6 as stated: a call whose tool name is in the active domain's catalog is
\* dispatched to that domain's handler and the active domain is unchanged.
C6_Original ==
  (last.op = "call" /\ InsideActiveDomain(last.name))
  => /\ last.handled = <<[domain |-> last.before, name |-> last.name]>>
     /\ currentDomain = last.before

\* C6 amended: a call whose tool name is in the active domain's catalog leaves
\* the active domain unchanged whatever its outcome, and with credentials
\* configured it is dispatched to that domain's handler.
C6_ActiveDomainDispatch ==
  (last.op = "call" /\ InsideActiveDomain(last.name))
  => /\ currentDomain = last.before
     /\ CredentialsConfigured
          => last.handled = <<[domain |-> last.before, name |-> last.name]>>

\* a tickets tool called inside tickets failed at the transport and the
\* domain stayed
C6_Witness ==
  /\ IsCall("superops_tickets_create") /\ last.before = "tickets"
  /\ CredentialsConfigured /\ Failed(last.result)
  /\ Len(last.handled) = 1 /\ currentDomain = "tickets"

\* C7: with credentials configured, a call whose name is neither a navigation
\* tool nor in any catalog returns the unknown-tool error, reaches no domain
\* handler and no transport request, and leaves the active domain unchanged.
C7_UnknownTool ==
  (last.op = "call" /\ CredentialsConfigured
     /\ last.name \notin DomainToolNames \cup NavigationToolNames)
  => /\ Failed(last.result)
     /\ last.result.text = <<"Unknown tool: ", last.name,
                             ". Use superops_navigate to explore available tools.">>
     /\ last.handled = <<>>
     /\ last.requests = <<>>
     /\ currentDomain = last.before

\* an unknown tool was called inside a domain
C7_Witness ==
  /\ IsCall("unknown_tool") /\ CredentialsConfigured
  /\ last.before = "assets" /\ currentDomain = "assets"
  /\ Failed(last.result)

\* C8: with the token or the subdomain unset or empty, the probe and every
\* call other than navigate and back return one and the same error naming
\* both variables, and no domain handler or transport request is reached.
C8_CredentialGate ==
  (last.op = "call" /\ ~CredentialsConfigured
     /\ last.name \notin {"superops_navigate", "superops_back"})
  => /\ Failed(last.result)
     /\ last.result.text =
          <<"Error: No API credentials configured. Please set ", "SUPEROPS_API_TOKEN",
            " and ", "SUPEROPS_SUBDOMAIN", " environment variables.">>
     /\ last.handled = <<>>
     /\ last.requests = <<>>

\* a known tool was called inside its domain with the subdomain empty while a
\* client was still cached
C8_Witness ==
  /\ IsCall("superops_clients_list") /\ last.before = "clients"
  /\ env.SUPEROPS_SUBDOMAIN = "" /\ _client # <<>>
  /\ Failed(last.result) /\ last.handled = <<>>

\* the message a failed transport operation carries
UnderlyingMessage(response) ==
  IF response.rejects THEN {"socket hang up"}
  ELSE IF ~response.ok THEN {response.status, response.statusText}
  ELSE IF response.errors # <<>> THEN {response.errors[1].message}
  ELSE {"No data returned from GraphQL query"}

ProbeSucceeds(response) ==
  ~response.rejects /\ response.ok /\ response.errors = <<>> /\ response.data = "object"

\* C9: with credentials configured the probe performs exactly one clients-list
\* operation with first = 1; on success the result is a non-error message with
\* the configured subdomain and the region ("us" when unset); on any failure
\* it is an error result containing the underlying message.
C9_TestConnection ==
  (IsCall("superops_test_connection") /\ CredentialsConfigured)
  => /\ last.handled = <<[domain |-> "clients", name |-> "superops_clients_list"]>>
     /\ Len(last.requests) = 1
     /\ last.requests[1].tool = "superops_clients_list"
     /\ last.requests[1].first = 1
     /\ IF ProbeSucceeds(last.requests[1].response)
        THEN /\ Succeeded(last.result)
             /\ Contains(last.result.text, env.SUPEROPS_SUBDOMAIN)
             /\ Contains(last.result.text,
                         IF env.SUPEROPS_REGION = undefined THEN "us"
                         ELSE env.SUPEROPS_REGION)
        ELSE /\ Failed(last.result)
             /\ \A m \in UnderlyingMessage(last.requests[1].response) :
                  Contains(last.result.text, m)

\* the probe succeeded inside a domain with the region unset
C9_Witness ==
  /\ IsCall("superops_test_connection") /\ CredentialsConfigured
  /\ env.SUPEROPS_REGION = undefined /\ last.before = "tickets"
  /\ Succeeded(last.result) /\ Contains(last.result.text, "us")
  /\ Len(last.requests) = 1

\* C10: no call completes by throwing: the top-level call handler and each
\* domain module's handleCall always return a tool result.
C10_NoCallThrows ==
  last.op \in {"call", "handleCall"} => ~last.result.thrown


ModuleCall == last.op = "handleCall"
\* the module a direct call was made of, and its catalog
CalledModule == last.handled[1].domain
Catalog(domain) == Range(DomainModule(domain))

\* C11: in each of the five domain modules, when the transport operation of a
\* known tool fails, handleCall returns the one text block 'Error: <m>' with
\* isError true: <m> is the Error's message for an HTTP failure or a GraphQL
\* error, and the string coercion of the value when a non-Error was thrown.
C11_TransportFailureText ==
  (ModuleCall /\ last.name \in Catalog(CalledModule) /\ last.requests # <<>>) =>
    LET response == last.requests[1].response IN
    /\ response.rejects =>
         (Failed(last.result) /\ last.result.text = <<"Error: ", "socket hang up">>)
    /\ (~response.rejects /\ ~response.ok) =>
         (Failed(last.result)
            /\ last.result.text = <<"Error: ", "HTTP error: ", response.status, " ",
                                    response.statusText>>)
    /\ (~response.rejects /\ response.ok /\ response.errors # <<>>) =>
         (Failed(last.result)
            /\ last.result.text = <<"Error: ", response.errors[1].message>>)

\* the custom module's passthrough query failed with a thrown non-Error value
C11_Witness ==
  /\ ModuleCall /\ last.name = "superops_custom_query" /\ last.requests # <<>>
  /\ last.requests[1].response.rejects
  /\ Failed(last.result)
  /\ last.result.text = <<"Error: ", "socket hang up">>

\* C12: for each domain module, handleCall with a name that is not in that
\* module's catalog always returns an isError result with the text
\* 'Unknown <domain> tool: <name>' and performs no network operation.
C12_UnknownToolInModule ==
  (ModuleCall /\ last.name \notin Catalog(CalledModule)) =>
    /\ Failed(last.result)
    /\ last.result.text = <<"Unknown ", CalledModule, " tool: ", last.name>>
    /\ last.requests = <<>>

\* a direct call of the named tool that sent a request
RequestOf(name) == ModuleCall /\ last.name = name /\ last.requests # <<>>
\* the 'input' of the request sent, and its filter ({} when it has none)
SentInput == Get(last.requests[1].variables, "input")
SentFilter ==
  IF HasKey(SentInput, "filter") THEN Get(SentInput, "filter") ELSE JObj(<<>>)
Supplied(key) == Has(last.args, key)

\* the (default, cap) of every tool with a max parameter
DefaultAndCap(name) ==
  CASE name = "superops_clients_list" -> <<50, 500>>
    [] name = "superops_clients_search" -> <<20, 100>>
    [] name = "superops_tickets_list" -> <<50, 500>>
    [] name = "superops_assets_list" -> <<100, 500>>
    [] name = "superops_assets_software" -> <<100, 500>>
    [] name = "superops_technicians_list" -> <<50, 500>>
    [] name = "superops_technicians_groups" -> <<50, 500>>
ToolsWithMax ==
  {"superops_clients_list", "superops_clients_search", "superops_tickets_list",
   "superops_assets_list", "superops_assets_software", "superops_technicians_list",
   "superops_technicians_groups"}

\* C13: for every tool with a max parameter and every requested value, the
\* outgoing 'first' equals min(requested if supplied else default, cap) with
\* the listed (default, cap) pairs; so 'first' never exceeds the cap and a
\* supplied value at or below the cap is sent unchanged.
C13_FirstIsClamped ==
  \A name \in ToolsWithMax : RequestOf(name) =>
    LET default == DefaultAndCap(name)[1]
        cap == DefaultAndCap(name)[2]
        requested == IF Supplied("max") THEN last.args.max ELSE default
        first == Get(SentInput, "first")
    IN /\ first = JNum(IF requested < cap THEN requested ELSE cap)
       /\ first.num <= cap
       /\ (Supplied("max") /\ last.args.max <= cap) => first = JNum(last.args.max)

\* a search asked for one more than its cap of 100 and sent 100
C13_Witness ==
  /\ RequestOf("superops_clients_search")
  /\ Supplied("max") /\ last.args.max = 101
  /\ Get(SentInput, "first") = JNum(100)

\* the list tools and, for each, the filter keys with the input each stands for
FilterTools ==
  {"superops_clients_list", "superops_tickets_list", "superops_assets_list",
   "superops_assets_software", "superops_assets_patches", "superops_technicians_list"}
FilterKeyInputs(name) ==
  CASE name = "superops_clients_list" -> {<<"status", "status">>, <<"stage", "stage">>}
    [] name = "superops_tickets_list" ->
         {<<"status", "status">>, <<"priority", "priority">>, <<"client", "clientId">>,
          <<"assignee", "assigneeId">>}
    [] name = "superops_assets_list" ->
         {<<"status", "status">>, <<"platform", "platform">>, <<"client", "clientId">>}
    [] name = "superops_assets_software" -> {<<"name", "search">>}
    [] name = "superops_assets_patches" -> {<<"status", "status">>, <<"severity", "severity">>}
    [] name = "superops_technicians_list" -> {<<"isActive", "activeOnly">>, <<"teams", "teamId">>}
\* the filter keys every list tool may send
FilterKeysOf(name) == {p[1] : p \in FilterKeyInputs(name)}
\* the request never carries an empty filter, nor a filter key of no input
FilterOmittedWhenEmpty(name) ==
  /\ HasKey(SentInput, "filter") => Keys(Get(SentInput, "filter")) # {}
  /\ Keys(SentFilter) \subseteq FilterKeysOf(name)
\* clients_list with no arguments sends first = 50, orderBy {name, ASC} and no filter
ClientsListExample ==
  (RequestOf("superops_clients_list") /\ last.args = NoArgs) =>
    SentInput = JObj(<<Member("first", JNum(50)),
                       Member("orderBy", JObj(<<Member("field", JStr("name")),
                                                Member("direction", JStr("ASC"))>>))>>)

\* C14 as stated: in the list tools a key appears in the outgoing filter if
\* and only if the corresponding optional input was supplied, no unsupplied
\* field appears with a null value, and when no key is contributed the request
\* input contains no 'filter' key at all.
C14_Original ==
  /\ \A name \in FilterTools : RequestOf(name) =>
       /\ \A p \in FilterKeyInputs(name) :
            /\ HasKey(SentFilter, p[1]) <=> Supplied(p[2])
            /\ ~Supplied(p[2]) => Get(SentFilter, p[1]) # JNull
       /\ FilterOmittedWhenEmpty(name)
  /\ ClientsListExample

\* the inputs given as arrays, and the input given as a boolean
ArrayInputs(name) ==
  CASE name = "superops_tickets_list" -> {"status", "priority"}
    [] name = "superops_assets_patches" -> {"severity"}
    [] OTHER -> {}
\* an input supplied with a value that counts: any array, a non-empty string
SuppliedNonEmpty(name, key) ==
  Supplied(key) /\ (IF key \in ArrayInputs(name) THEN TRUE ELSE last.args[key] # "")
Unassigned == Supplied("unassigned") /\ last.args.unassigned
InactiveToo == Supplied("activeOnly") /\ ~last.args.activeOnly

\* C14: in the list tools a key appears in the outgoing filter if and only if
\* its input was supplied with an array or a non-empty string, with two
\* exceptions: technicians_list sends isActive: true unless activeOnly is
\* supplied as false, and tickets_list sends assignee also when unassigned is
\* true, then with the value null; no other key has a null value; and when no
\* key is contributed the request input has no 'filter' key at all.
C14_FilterKeys ==
  /\ \A name \in FilterTools : RequestOf(name) =>
       /\ \A p \in FilterKeyInputs(name) :
            IF p[1] = "isActive"
            THEN /\ HasKey(SentFilter, "isActive") <=> ~InactiveToo
                 /\ ~InactiveToo => Get(SentFilter, "isActive") = JBool(TRUE)
            ELSE IF p[1] = "assignee"
            THEN /\ HasKey(SentFilter, "assignee")
                      <=> (SuppliedNonEmpty(name, "assigneeId") \/ Unassigned)
                 /\ Get(SentFilter, "assignee") = JNull <=> Unassigned
            ELSE /\ HasKey(SentFilter, p[1]) <=> SuppliedNonEmpty(name, p[2])
                 /\ Get(SentFilter, p[1]) # JNull
       /\ FilterOmittedWhenEmpty(name)
  /\ ClientsListExample

\* clients_list was given an empty status and a stage, and its filter has
\* the stage alone
C14_Witness ==
  /\ RequestOf("superops_clients_list")
  /\ Supplied("status") /\ last.args.status = ""
  /\ Supplied("stage")
  /\ SentFilter = JObj(<<Member("stage", JStr(last.args.stage))>>)

\* C15: whenever superops_tickets_list is called with unassigned: true, the
\* outgoing filter contains the key assignee with the literal value null, for
\* every combination of the other inputs including a supplied assigneeId.
C15_UnassignedIsNull ==
  (RequestOf("superops_tickets_list") /\ Unassigned) =>
    /\ HasKey(SentInput, "filter")
    /\ HasKey(Get(SentInput, "filter"), "assignee")
    /\ Get(Get(SentInput, "filter"), "assignee") = JNull

\* unassigned: true together with an assigneeId, and the filter says null
C15_Witness ==
  /\ RequestOf("superops_tickets_list") /\ Unassigned
  /\ Supplied("assigneeId") /\ Supplied("status")
  /\ Get(SentFilter, "assignee") = JNull

TeamsOf(teamId) == JObj(<<Member("id", JStr(teamId))>>)

UpperCased(s) ==
  CASE s = "critical" -> "CRITICAL"
    [] s = "High" -> "HIGH"
    [] s = "low" -> "LOW"
    [] s = "Resolved" -> "RESOLVED"
    [] s = "open" -> "OPEN"
\* an array argument as it is when passed through unchanged
AsGiven(strings) == JArr([i \in DOMAIN strings |-> JStr(strings[i])])

\* C17: superops_tickets_create and superops_tickets_update put a supplied
\* priority into the mutation input converted to upper case and omit the key
\* when priority is not supplied, whereas superops_tickets_list passes
\* supplied status and priority filter values through with no case change.
C17_PriorityUpperCased ==
  /\ \A name \in {"superops_tickets_create", "superops_tickets_update"} :
       RequestOf(name) =>
         IF Supplied("priority")
         THEN Get(SentInput, "priority") = JStr(UpperCased(last.args.priority))
         ELSE ~HasKey(SentInput, "priority")
  /\ RequestOf("superops_tickets_list") =>
       /\ Supplied("status") => Get(SentFilter, "status") = AsGiven(last.args.status)
       /\ Supplied("priority") => Get(SentFilter, "priority") = AsGiven(last.args.priority)

\* a ticket was created with priority "critical" and the input says "CRITICAL"
C17_Witness ==
  /\ RequestOf("superops_tickets_create")
  /\ Supplied("priority") /\ last.args.priority = "critical"
  /\ Get(SentInput, "priority") = JStr("CRITICAL")

\* C18 as stated: superops_tickets_update case-normalizes a supplied status
\* to upper case before placing it in the mutation input, in the same way as
\* priority.
C18_Original ==
  (RequestOf("superops_tickets_update") /\ Supplied("status")) =>
    Get(SentInput, "status") = JStr(UpperCased(last.args.status))

\* C18: superops_tickets_update places a supplied status in the mutation
\* input exactly as given, with no case change; of the two, only priority is
\* converted to upper case.
C18_StatusAsGiven ==
  RequestOf("superops_tickets_update") =>
    /\ Supplied("status") => Get(SentInput, "status") = JStr(last.args.status)
    /\ ~Supplied("status") => ~HasKey(SentInput, "status")
    /\ Supplied("priority") =>
         Get(SentInput, "priority") = JStr(UpperCased(last.args.priority))

\* an update with status "Resolved" and priority "low" sent "Resolved" and "LOW"
C18_Witness ==
  /\ RequestOf("superops_tickets_update")
  /\ Supplied("status") /\ last.args.status = "Resolved"
  /\ Supplied("priority") /\ last.args.priority = "low"
  /\ Get(SentInput, "status") = JStr("Resolved")
  /\ Get(SentInput, "priority") = JStr("LOW")

\* the numbers a payload may carry
PayloadNumbers == 0..9
\* the fragments that are white space, and the number a numeric fragment denotes
IsSpace(fragment) == \E depth \in 0..4 : fragment = Newline(depth)
IsNumber(fragment) == \E n \in PayloadNumbers : fragment = ToString(n)
NumberOf(fragment) == CHOOSE n \in PayloadNumbers : fragment = ToString(n)
\* the string an escaped string fragment denotes
Unescaped(s) ==
  CASE s = "say \\\"hi\\\"" -> "say \"hi\""
    [] s = "a\\\\b" -> "a\\b"
    [] s = "line1\\nline2" -> "line1\nline2"
    [] OTHER -> s

RECURSIVE SkipSpace(_, _)
\* the position of the first fragment at or after i that is not white space
SkipSpace(text, i) ==
  IF i <= Len(text) /\ IsSpace(text[i]) THEN SkipSpace(text, i + 1) ELSE i

Parsed(value, next) == [value |-> value, next |-> next]

RECURSIVE ParseValue(_, _)
RECURSIVE ParseItems(_, _, _)
RECURSIVE ParseMembers(_, _, _)
\* the elements of an array up to its closing bracket, from position i
ParseItems(text, i, items) ==
  LET item == ParseValue(text, SkipSpace(text, i))
      after == SkipSpace(text, item.next)
  IN IF text[after] = ","
     THEN ParseItems(text, after + 1, Append(items, item.value))
     ELSE Parsed(JArr(Append(items, item.value)), after + 1)
\* the members of an object up to its closing brace, from position i
ParseMembers(text, i, members) ==
  LET k == SkipSpace(text, i)
      member == ParseValue(text, k + 4)
      after == SkipSpace(text, member.next)
      all == Append(members, Member(Unescaped(text[k + 1]), member.value))
  IN IF text[after] = ","
     THEN ParseMembers(text, after + 1, all)
     ELSE Parsed(JObj(all), after + 1)
\* JSON.parse of the fragments from position i: the value and the position
\* after it
ParseValue(text, i) ==
  CASE text[i] = "null" -> Parsed(JNull, i + 1)
    [] text[i] = "true" -> Parsed(JBool(TRUE), i + 1)
    [] text[i] = "false" -> Parsed(JBool(FALSE), i + 1)
    [] text[i] = "[]" -> Parsed(JArr(<<>>), i + 1)
    [] text[i] = "{}" -> Parsed(JObj(<<>>), i + 1)
    [] text[i] = "\"" -> Parsed(JStr(Unescaped(text[i + 1])), i + 3)
    [] text[i] = "[" -> ParseItems(text, i + 1, <<>>)
    [] text[i] = "{" -> ParseMembers(text, i + 1, <<>>)
    [] IsNumber(text[i]) -> Parsed(JNum(NumberOf(text[i])), i + 1)
\* the whole text parsed
Parse(text) == ParseValue(text, 1).value
\* the text is one JSON document and nothing more
ParsesFully(text) == ParseValue(text, 1).next = Len(text) + 1

\* the response answered a call with a data object
Answered ==
  /\ ModuleCall /\ last.requests # <<>>
  /\ ~last.requests[1].response.rejects /\ last.requests[1].response.ok
  /\ last.requests[1].response.errors = <<>>
  /\ last.requests[1].response.data = "object"
\* the payload the operation's field carried, and the data object around it
ReturnedPayload == last.requests[1].response.payload
ReturnedData ==
  JObj(<<Member(RootField(last.requests[1].operation), ReturnedPayload)>>)

\* C19: every successful domain call returns one text block and no isError
\* flag, whose text is the pretty-printed JSON of the returned data payload
\* without renaming, filtering or redaction: parsing the text yields exactly
\* the payload (the operation's field for typed tools, the whole data object
\* for custom query/mutation).
C19_TextIsThePayload ==
  Answered =>
    /\ Succeeded(last.result)
    /\ ParsesFully(last.result.text)
    /\ Parse(last.result.text)
         = (IF last.name \in {"superops_custom_query", "superops_custom_mutation"}
            THEN ReturnedData ELSE ReturnedPayload)

\* a typed list tool returned a nested payload with a secret and a null in it
C19_Witness ==
  /\ Answered /\ last.name = "superops_tickets_list"
  /\ ReturnedPayload = ListPayload
  /\ Contains(last.result.text, "secret")
  /\ Parse(last.result.text) = ListPayload

\* the transport client was just asked a query or a mutation
TransportCall == last.op \in {"query", "mutate"}
\* the machine-readable code and the retry hint of an errors-list entry
\* (<<>> when its extensions, or the field, are absent)
CodeOf(error) == IF error.extensions = <<>> THEN <<>> ELSE error.extensions[1].code
RetryAfterOf(error) ==
  IF error.extensions = <<>> THEN <<>> ELSE error.extensions[1].retryAfter

\* C20: SuperOpsClient.query classifies each response in this precedence: a
\* non-success HTTP status raises an error embedding the status code and
\* status text, whatever the body; otherwise a non-empty errors list raises a
\* SuperOpsError with the first error's message and its extensions' code and
\* retryAfter, even when data is also present; otherwise a missing data
\* payload raises 'No data returned from GraphQL query'; otherwise the data
\* payload is returned; and mutate behaves identically to query.
C20_ResponseClassification ==
  (TransportCall /\ ~last.requests[1].response.rejects) =>
    LET sent == last.requests[1]
        response == sent.response
        outcome == sent.outcome
    IN /\ ~response.ok =>
            /\ outcome.thrown /\ outcome.error.isError
            /\ outcome.error.name = "Error"
            /\ outcome.error.message
                 = <<"HTTP error: ", response.status, " ", response.statusText>>
       /\ (response.ok /\ response.errors # <<>>) =>
            /\ outcome.thrown /\ outcome.error.isError
            /\ outcome.error.name = "SuperOpsError"
            /\ outcome.error.message = <<response.errors[1].message>>
            /\ outcome.error.code = CodeOf(response.errors[1])
            /\ outcome.error.retryAfter = RetryAfterOf(response.errors[1])
       /\ (response.ok /\ response.errors = <<>> /\ response.data # "object") =>
            /\ outcome.thrown /\ outcome.error.isError
            /\ outcome.error.message = <<"No data returned from GraphQL query">>
       /\ (response.ok /\ response.errors = <<>> /\ response.data = "object") =>
            /\ ~outcome.thrown
            /\ outcome.value
                 = JObj(<<Member(RootField(sent.operation), response.payload)>>)
       /\ last.op = "mutate" =>
            outcome = query(sent.client, sent.operation, sent.response)

\* a mutation was answered 200 with two errors and data as well, and raised
\* a SuperOpsError carrying the first error's message, code and retry hint
C20_Witness ==
  /\ last.op = "mutate"
  /\ last.requests[1].response.ok
  /\ Len(last.requests[1].response.errors) = 2
  /\ last.requests[1].response.data = "object"
  /\ last.requests[1].outcome.thrown
  /\ last.requests[1].outcome.error.name = "SuperOpsError"
  /\ last.requests[1].outcome.error.message = <<"Rate limit exceeded">>
  /\ last.requests[1].outcome.error.code = <<"RATE_LIMITED">>
  /\ last.requests[1].outcome.error.retryAfter = <<30>>

\* the two fixed base endpoints
UsEndpoint == "https://api.superops.ai/msp"
EuEndpoint == "https://euapi.superops.ai/msp"
\* getClient() was just called and constructed a client from the environment
Constructed ==
  /\ last.op = "getClient"
  /\ last.requests[1].cached = <<>> /\ ~last.requests[1].thrown

\* C21: for every value of the region setting, the transport client's
\* endpoint is one of the two fixed base endpoints: the EU endpoint when the
\* region is "eu" and the US endpoint in every other case, including when the
\* region is unset, empty or not one of the two supported values.
C21_EndpointOfRegion ==
  Constructed =>
    last.requests[1].returned[1].endpoint
      = (IF env.SUPEROPS_REGION = "eu" THEN EuEndpoint ELSE UsEndpoint)

\* the environment has neither, or only an empty, token or subdomain
Unconfigured ==
  \/ env.SUPEROPS_API_TOKEN \in {undefined, ""}
  \/ env.SUPEROPS_SUBDOMAIN \in {undefined, ""}

\* C22: getCredentials returns null if and only if the API token or the
\* subdomain is unset or empty in the environment at the time of the call;
\* otherwise it returns the token, the subdomain and the region exactly as
\* currently set (region undefined when unset), re-reading the environment on
\* every call.
C22_CredentialsFromEnvironment ==
  last.op = "getCredentials" =>
    LET credentials == last.requests[1].credentials IN
    /\ credentials = <<>> <=> Unconfigured
    /\ ~Unconfigured =>
         credentials = <<[apiToken |-> env.SUPEROPS_API_TOKEN,
                          subdomain |-> env.SUPEROPS_SUBDOMAIN,
                          region |-> env.SUPEROPS_REGION]>>

\* credentials were read with the region unset while a client built from an
\* earlier environment is cached: the subdomain returned is the current one
C22_Witness ==
  /\ last.op = "getCredentials"
  /\ last.requests[1].credentials # <<>>
  /\ last.requests[1].credentials[1].region = undefined
  /\ _client # <<>>
  /\ _client[1].subdomain # last.requests[1].credentials[1].subdomain

\* C24: getClient returns the same transport client on every call from its
\* first successful construction until resetClient is called; after
\* resetClient the next getClient constructs a new client from the environment
\* as it is at that moment; and when no client is cached and credentials are
\* missing getClient raises the credentials-not-configured error and caches
\* nothing.
C24_ClientSingleton ==
  /\ last.op = "reset" => _client = <<>>
  /\ last.op = "getClient" =>
       LET call == last.requests[1] IN
       /\ call.cached # <<>> =>
            (~call.thrown /\ call.returned = call.cached /\ _client = call.cached)
       /\ (call.cached = <<>> /\ ~Unconfigured) =>
            /\ ~call.thrown /\ call.returned # <<>> /\ _client = call.returned
            /\ call.returned[1].apiToken = env.SUPEROPS_API_TOKEN
            /\ call.returned[1].subdomain = env.SUPEROPS_SUBDOMAIN
       /\ (call.cached = <<>> /\ Unconfigured) =>
            /\ call.thrown /\ _client = <<>>
            /\ call.error.isError
            /\ call.error.message
                 = <<"SuperOps credentials not configured. Set ", "SUPEROPS_API_TOKEN",
                     " and ", "SUPEROPS_SUBDOMAIN", " environment variables.">>

\* the cached client was returned although the environment now names another
\* subdomain
C24_Witness ==
  /\ last.op = "getClient"
  /\ last.requests[1].cached # <<>>
  /\ ~Unconfigured
  /\ last.requests[1].returned = last.requests[1].cached
  /\ last.requests[1].returned[1].subdomain # env.SUPEROPS_SUBDOMAIN

\* C25: each domain tool call issues at most one transport operation and
\* each transport operation issues exactly one HTTP POST: a failed operation
\* is never retried, also when the GraphQL error carries a retryAfter hint.
C25_OneOperationOnePost ==
  ModuleCall =>
    /\ Len(last.requests) <= 1
    /\ \A i \in DOMAIN last.requests : last.requests[i].posted

\* every name the server answers to: the navigation tools and the catalogs
AllToolNames ==
  <<testConnectionTool, navigationTool, backTool>>
  \o getClientsTools \o getTicketsTools \o getAssetsTools \o getTechniciansTools
  \o getCustomTools
NoDuplicates(names) ==
  \A i, j \in DOMAIN names : i # j => names[i] # names[j]
\* the domains whose catalog has the name
CandidateDomains(name) == {d \in TheFiveDomains : name \in Catalog(d)}

\* C23: across all five domain catalogs and the three navigation tools every
\* tool name is unique: no name appears twice within one catalog, in two
\* catalogs, or both as a navigation tool and a domain tool, so fallback
\* resolution never has more than one candidate domain for a name.
C23_ToolNamesUnique ==
  /\ NoDuplicates(AllToolNames)
  /\ Len(AllToolNames) = 21
  /\ last.op = "call" => Cardinality(CandidateDomains(last.name)) <= 1

\* a call resolved by fallback had exactly one candidate domain
C23_Witness ==
  /\ last.op = "call" /\ CredentialsConfigured
  /\ last.name = "superops_custom_query" /\ last.before = "clients"
  /\ CandidateDomains(last.name) = {"custom"}
  /\ currentDomain = "custom"

\* a call that the fallback loop resolved, made with credentials configured
FallbackResolved ==
  /\ last.op = "call" /\ CredentialsConfigured
  /\ last.name \in DomainToolNames /\ OutsideActiveDomain(last.name)

\* C28: in fallback resolution the active domain is switched to the resolved
\* domain before the call is dispatched, so the switch persists whatever the
\* dispatched call returns: after a fallback-resolved call that ends in an
\* error result the active domain is still the resolved domain and the tool
\* listing shows that domain's catalog.
C28_FallbackSwitchPersists ==
  (FallbackResolved /\ ~Succeeded(last.result))
  => /\ currentDomain = FirstDomainWith(last.name)
     /\ ListToolsHandler = <<testConnectionTool, backTool>>
                             \o DomainModule(FirstDomainWith(last.name))

\* a tickets tool called from the clients domain failed in the transport and
\* tickets is the active domain all the same
C28_Witness ==
  /\ FallbackResolved /\ last.name = "superops_tickets_create"
  /\ Failed(last.result) /\ last.result.text[1] = "Error: "
  /\ last.before = "clients" /\ currentDomain = "tickets"
  /\ ListToolsHandler = <<testConnectionTool, backTool>> \o getTicketsTools

\* a call that the credential gate turned away
GateRejected ==
  /\ last.op = "call" /\ last.name \notin NavigationToolNames
  /\ ~CredentialsConfigured

\* C29: superops_test_connection, in every outcome, and every call rejected by
\* the credential gate leave the active domain unchanged: with credentials
\* missing a call naming another domain's tool does not trigger fallback
\* navigation, and a successful probe against the clients domain does not make
\* clients the active domain.
C29_ProbeAndGateKeepDomain ==
  /\ IsCall(testConnectionTool) => currentDomain = last.before
  /\ GateRejected => /\ currentDomain = last.before
                     /\ last.handled = <<>>
                     /\ last.result = ToolResult(TRUE, NoCredentialsText)

\* a probe made inside the tickets domain succeeded against the clients
\* module and tickets is still the active domain
C29_Witness ==
  /\ IsCall(testConnectionTool) /\ Succeeded(last.result)
  /\ last.handled = <<[domain |-> "clients", name |-> "superops_clients_list"]>>
  /\ last.before = "tickets" /\ currentDomain = "tickets"

\* with credentials missing a clients tool called inside the tickets domain
\* was turned away and tickets is still the active domain
C29_GateWitness ==
  /\ GateRejected /\ last.name = "superops_clients_list"
  /\ last.before = "tickets" /\ currentDomain = "tickets"

\* C30: after any sequence of environment changes, tool calls and resetClient
\* calls, the subdomain and region reported in a successful
\* superops_test_connection message are the subdomain and region of the
\* transport client that served the probe request.
C30_ReportedCredentialsServe ==
  (IsCall(testConnectionTool) /\ Succeeded(last.result))
  => /\ Len(last.requests) = 1
     /\ last.result.text[2] = last.requests[1].client.subdomain
     /\ API_ENDPOINTS(last.result.text[4]) = last.requests[1].client.endpoint

NavigateReturned ==
  /\ IsCall(navigationTool) /\ Succeeded(last.result)
  /\ last.result.text[1] = "Navigated to " /\ last.result.text[2] = last.args.domain

\* C27: the active domain equals d at the moment navigate(d) returns success
\* when no other handler ran in between, but not when handlers are invoked
\* concurrently: a second navigate, or a domain call resolved by fallback,
\* that assigns the active domain while navigate(d) is suspended at its
\* module-load await leaves the active domain different from d at the return.
C27_NavigateUnderConcurrency ==
  (NavigateReturned /\ last.requests[1].overtaken = {})
  => currentDomain = last.args.domain

\* navigate(d) returned success after another navigate ran during its await,
\* and the active domain is that other navigate's
C27_Witness ==
  /\ NavigateReturned /\ last.requests[1].overtaken = {"navigate"}
  /\ currentDomain \in TheFiveDomains /\ currentDomain # last.args.domain

\* navigate(d) returned success after a domain call was resolved by fallback
\* during its await, and the active domain is the resolved one
C27_FallbackWitness ==
  /\ NavigateReturned /\ last.requests[1].overtaken = {"fallback"}
  /\ currentDomain \in TheFiveDomains /\ currentDomain # last.args.domain
====
